---- MODULE Spec2Model ----
(***************************************************************************)
(* claude-powerline: the status line renderer (PowerlineRenderer), the     *)
(* theme table (getTheme) and the segment formatters it calls.             *)
(*                                                                         *)
(* A string is modelled as a sequence of tokens: one token per escape      *)
(* code, glyph, blank or segment text, so that the empty string is <<>>    *)
(* and string concatenation is \o.  A colour value is identified by the    *)
(* theme table, the category and the part (bg/fg) it is read from, plus    *)
(* the encoding the capability level gives it.                             *)
(***************************************************************************)
EXTENDS Integers, Sequences, FiniteSets, TLC

(***************************************************************************)
(* Bounds of the model.                                                    *)
(***************************************************************************)
MaxLines == 2
MaxSegs == 3
MaxTextWidth == 3
MaxTermWidth == 18
NarrowWidth == 4
WideWidth == 11

(***************************************************************************)
(* Tokens and strings.                                                     *)
(***************************************************************************)
Tok(t, hex, enc, len) == [t |-> t, hex |-> hex, enc |-> enc, len |-> len]

Glyph(name) == <<Tok(name, <<>>, "", 1)>>

RESET_CODE == <<Tok("reset", <<>>, "", 0)>>

SPACE == <<Tok("sp", <<>>, "", 1)>>

NEWLINE == <<Tok("nl", <<>>, "", 0)>>

RECURSIVE SumLen(_)
SumLen(s) == IF s = <<>> THEN 0 ELSE Head(s).len + SumLen(Tail(s))

\* visibleLength: the number of visible characters, escape codes excluded
visibleLength(text) == SumLen(text)

\* Array.prototype.join with a line break
RECURSIVE JoinNL(_)
JoinNL(ls) ==
  IF ls = <<>> THEN <<>>
  ELSE IF Len(ls) = 1 THEN ls[1]
  ELSE ls[1] \o NEWLINE \o JoinNL(Tail(ls))

\* Array.prototype.filter(line => line.length > 0)
RECURSIVE FilterNonEmpty(_)
FilterNonEmpty(ls) ==
  IF ls = <<>> THEN <<>>
  ELSE IF Len(Head(ls)) > 0 THEN <<Head(ls)>> \o FilterNonEmpty(Tail(ls))
  ELSE FilterNonEmpty(Tail(ls))

(***************************************************************************)
(* Themes.                                                                 *)
(***************************************************************************)
Kinds ==
  {"directory", "git", "model", "session", "tmux", "context", "metrics",
   "block", "today", "version"}

ColorSupports == {"none", "ansi", "ansi256", "truecolor"}

Styles == {"powerline", "minimal", "capsule"}

BUILT_IN_THEMES ==
  {"dark", "dark-ansi256", "dark-ansi",
   "light", "light-ansi256", "light-ansi",
   "nord", "nord-ansi256", "nord-ansi",
   "tokyo-night", "tokyo-night-ansi256", "tokyo-night-ansi",
   "rose-pine", "rose-pine-ansi256", "rose-pine-ansi",
   "gruvbox", "gruvbox-ansi256", "gruvbox-ansi"}

\* A colour table: a built-in one is known by its registered name; a custom
\* one by the categories it leaves out and by whether it has a warning pair.
Table(name, missing, warning) ==
  [name |-> name, missing |-> missing, warning |-> warning]

NoTable == Table("", {}, "absent")

BuiltIn(name) == Table(name, {}, "builtin")

\* BUILT_IN_THEMES[name]: undefined when the name is not registered
Lookup(name) == IF name \in BUILT_IN_THEMES THEN BuiltIn(name) ELSE NoTable

\* a lookup that prefers the 16-colour variant for "ansi" only
getTheme_noneUsesBase(themeName, colorSupport) ==
  LET baseTheme == Lookup(themeName)
      ansiVariant == Lookup(themeName \o "-ansi")
      ansi256Variant == Lookup(themeName \o "-ansi256")
  IN  IF baseTheme = NoTable THEN NoTable
      ELSE IF colorSupport = "ansi" /\ ansiVariant # NoTable
        THEN ansiVariant
      ELSE IF colorSupport = "ansi256" /\ ansi256Variant # NoTable
        THEN ansi256Variant
      ELSE baseTheme

getTheme(themeName, colorSupport) ==
  LET baseTheme == Lookup(themeName)
      ansiVariant == Lookup(themeName \o "-ansi")
      ansi256Variant == Lookup(themeName \o "-ansi256")
  IN  IF baseTheme = NoTable THEN NoTable
      ELSE IF colorSupport \in {"none", "ansi"} /\ ansiVariant # NoTable
        THEN ansiVariant
      ELSE IF colorSupport = "ansi256" /\ ansi256Variant # NoTable
        THEN ansi256Variant
      ELSE baseTheme

(***************************************************************************)
(* Colour encoding (utils/colors) and the resolved colour set.             *)
(***************************************************************************)
\* hexToAnsi / hexTo256Ansi / hexToBasicAnsi: one escape code for one colour
Encode(hex, isBg, enc) == <<Tok(IF isBg THEN "bg" ELSE "fg", hex, enc, 0)>>

hexToAnsi(hex, isBg) == Encode(hex, isBg, "truecolor")

hexTo256Ansi(hex, isBg) == Encode(hex, isBg, "ansi256")

hexToBasicAnsi(hex, isBg) == Encode(hex, isBg, "ansi")

\* extractBgToFg: the same colour value as a foreground code
RECURSIVE extractBgToFg(_, _)
extractBgToFg(bgColor, isBasicMode) ==
  IF bgColor = <<>> THEN <<>>
  ELSE <<Tok("bgAsFg", Head(bgColor).hex,
             IF isBasicMode THEN "basic" ELSE Head(bgColor).enc, 0)>>
       \o extractBgToFg(Tail(bgColor), isBasicMode)

\* colorTheme[segment] || fallbackTheme[segment], part "bg" or "fg"
SegmentHex(colorTheme, fallbackTheme, segment, part) ==
  IF segment \in colorTheme.missing
    THEN <<fallbackTheme.name, segment, part>>
    ELSE <<colorTheme.name, segment, part>>

\* colorTheme.warning || { bg: "#cc0000", fg: "#ffffff" }
WarningHex(colorTheme, part) ==
  CASE colorTheme.warning = "defined" -> <<colorTheme.name, "warning", part>>
    [] colorTheme.warning = "absent" -> <<"default", "warning", part>>
    [] OTHER -> <<colorTheme.name, "warning-or-default", part>>

EncodeFor(colorSupport, hex, isBg) ==
  CASE colorSupport = "none" -> <<>>
    [] colorSupport = "ansi" -> hexToBasicAnsi(hex, isBg)
    [] colorSupport = "ansi256" -> hexTo256Ansi(hex, isBg)
    [] OTHER -> hexToAnsi(hex, isBg)

\* a colour set whose warning pair is encoded at every level
ResolveColors_warningAtNone(colorTheme, fallbackTheme, colorSupport) ==
  LET bg(segment) ==
        EncodeFor(colorSupport,
                  SegmentHex(colorTheme, fallbackTheme, segment, "bg"), TRUE)
      fg(segment) ==
        EncodeFor(colorSupport,
                  SegmentHex(colorTheme, fallbackTheme, segment, "fg"), FALSE)
  IN  [reset |-> IF colorSupport = "none" THEN <<>> ELSE RESET_CODE,
       modeBg |-> bg("directory"), modeFg |-> fg("directory"),
       gitBg |-> bg("git"), gitFg |-> fg("git"),
       modelBg |-> bg("model"), modelFg |-> fg("model"),
       sessionBg |-> bg("session"), sessionFg |-> fg("session"),
       blockBg |-> bg("block"), blockFg |-> fg("block"),
       todayBg |-> bg("today"), todayFg |-> fg("today"),
       tmuxBg |-> bg("tmux"), tmuxFg |-> fg("tmux"),
       contextBg |-> bg("context"), contextFg |-> fg("context"),
       metricsBg |-> bg("metrics"), metricsFg |-> fg("metrics"),
       versionBg |-> bg("version"), versionFg |-> fg("version"),
       warningBg |-> EncodeFor(IF colorSupport = "none" THEN "ansi" ELSE colorSupport, WarningHex(colorTheme, "bg"), TRUE),
       warningFg |-> EncodeFor(IF colorSupport = "none" THEN "ansi" ELSE colorSupport, WarningHex(colorTheme, "fg"), FALSE)]

ResolveColors(colorTheme, fallbackTheme, colorSupport) ==
  LET bg(segment) ==
        EncodeFor(colorSupport,
                  SegmentHex(colorTheme, fallbackTheme, segment, "bg"), TRUE)
      fg(segment) ==
        EncodeFor(colorSupport,
                  SegmentHex(colorTheme, fallbackTheme, segment, "fg"), FALSE)
  IN  [reset |-> IF colorSupport = "none" THEN <<>> ELSE RESET_CODE,
       modeBg |-> bg("directory"), modeFg |-> fg("directory"),
       gitBg |-> bg("git"), gitFg |-> fg("git"),
       modelBg |-> bg("model"), modelFg |-> fg("model"),
       sessionBg |-> bg("session"), sessionFg |-> fg("session"),
       blockBg |-> bg("block"), blockFg |-> fg("block"),
       todayBg |-> bg("today"), todayFg |-> fg("today"),
       tmuxBg |-> bg("tmux"), tmuxFg |-> fg("tmux"),
       contextBg |-> bg("context"), contextFg |-> fg("context"),
       metricsBg |-> bg("metrics"), metricsFg |-> fg("metrics"),
       versionBg |-> bg("version"), versionFg |-> fg("version"),
       warningBg |-> EncodeFor(colorSupport, WarningHex(colorTheme, "bg"), TRUE),
       warningFg |-> EncodeFor(colorSupport, WarningHex(colorTheme, "fg"), FALSE)]

\* a fallback for the unknown theme that forgets the capability level
getThemeColors_fallbackIgnoresCapability(cfg) ==
  LET colorSupport == cfg.colorSupport
      found == getTheme(cfg.theme, colorSupport)
      fallbackTheme == getTheme("dark", colorSupport)
      colorTheme ==
        IF cfg.theme = "custom" THEN cfg.custom
        ELSE IF found = NoTable THEN getTheme("dark", "truecolor")
        ELSE found
  IN  [threw |-> cfg.theme = "custom" /\ cfg.custom = NoTable,
       warned |-> cfg.theme # "custom" /\ found = NoTable,
       colors |-> ResolveColors(colorTheme, fallbackTheme, colorSupport)]

\* getThemeColors: threw = the Error of the custom theme without colours,
\* warned = the console.warn of the unknown built-in theme
getThemeColors(cfg) ==
  LET colorSupport == cfg.colorSupport
      found == getTheme(cfg.theme, colorSupport)
      fallbackTheme == getTheme("dark", colorSupport)
      colorTheme ==
        IF cfg.theme = "custom" THEN cfg.custom
        ELSE IF found = NoTable THEN getTheme("dark", colorSupport)
        ELSE found
  IN  [threw |-> cfg.theme = "custom" /\ cfg.custom = NoTable,
       warned |-> cfg.theme # "custom" /\ found = NoTable,
       colors |-> ResolveColors(colorTheme, fallbackTheme, colorSupport)]

getSegmentBgColor(segmentType, colors) ==
  CASE segmentType = "directory" -> colors.modeBg
    [] segmentType = "git" -> colors.gitBg
    [] segmentType = "model" -> colors.modelBg
    [] segmentType = "session" -> colors.sessionBg
    [] segmentType = "block" -> colors.blockBg
    [] segmentType = "today" -> colors.todayBg
    [] segmentType = "tmux" -> colors.tmuxBg
    [] segmentType = "context" -> colors.contextBg
    [] segmentType = "metrics" -> colors.metricsBg
    [] segmentType = "version" -> colors.versionBg
    [] OTHER -> colors.modeBg

(***************************************************************************)
(* Symbols and the formatting of one segment.                              *)
(***************************************************************************)
initializeSymbols(style) ==
  [right |-> IF style = "minimal" THEN <<>>
             ELSE IF style = "capsule" THEN Glyph("right_rounded")
             ELSE Glyph("right"),
   left |-> IF style = "capsule" THEN Glyph("left_rounded") ELSE <<>>]

\* nextBgColor = <<>> stands for both undefined and the empty string: the
\* code tests its truthiness only
formatSegment(cfg, bgColor, fgColor, text, nextBgColor, colors) ==
  LET symbols == initializeSymbols(cfg.style)
      isBasicMode == cfg.colorSupport = "ansi"
      capFgColor == extractBgToFg(bgColor, isBasicMode)
      leftCap == capFgColor \o symbols.left \o colors.reset
      content == bgColor \o fgColor \o SPACE \o text \o SPACE \o colors.reset
      rightCap == capFgColor \o symbols.right \o colors.reset
      output == bgColor \o fgColor \o SPACE \o text \o SPACE
  IN  IF cfg.style = "capsule" THEN leftCap \o content \o rightCap
      ELSE IF nextBgColor # <<>>
        THEN output \o colors.reset \o nextBgColor
             \o extractBgToFg(bgColor, isBasicMode) \o symbols.right
      ELSE output \o colors.reset \o extractBgToFg(bgColor, isBasicMode)
           \o symbols.right \o colors.reset

(***************************************************************************)
(* Configuration and facts.                                                *)
(***************************************************************************)
\* the segment kinds the configurations of the model are drawn from
ConfiguredKinds == {"directory", "git", "context"}

NoThreshold == -1

Entry(type, enabled, warningThreshold) ==
  [type |-> type, enabled |-> enabled, warningThreshold |-> warningThreshold]

Info(present, percentage) == [present |-> present, percentage |-> percentage]

NoInfo == Info(FALSE, 0)

\* the entries without the filter
EnabledSegments_unfiltered(lineConfig) == lineConfig

\* Object.entries(lineConfig.segments).filter(config?.enabled)
EnabledSegments(lineConfig) == SelectSeq(lineConfig, LAMBDA e : e.enabled)

needsSegmentInfo(cfg, segmentType) ==
  \E l \in 1..Len(cfg.lines) :
    \E k \in 1..Len(cfg.lines[l]) :
      cfg.lines[l][k].type = segmentType /\ cfg.lines[l][k].enabled

(***************************************************************************)
(* Segment formatters (SegmentRenderer), as far as the renderer sees them: *)
(* the text, the colours and the suppression of a segment.                 *)
(***************************************************************************)
SegmentData(text, bgColor, fgColor) ==
  [shown |-> TRUE, text |-> text, bgColor |-> bgColor, fgColor |-> fgColor]

NoSegment == [shown |-> FALSE, text |-> <<>>, bgColor |-> <<>>, fgColor |-> <<>>]

TextOf(type, len) == <<Tok("text", <<type>>, "", len)>>

renderContext(contextInfo, colors, segConfig, len) ==
  LET warningThreshold ==
        IF segConfig.warningThreshold = NoThreshold THEN 100
        ELSE segConfig.warningThreshold
      isWarning == contextInfo.percentage >= warningThreshold
  IN  IF ~contextInfo.present
        THEN SegmentData(TextOf("context", len), colors.contextBg, colors.contextFg)
        ELSE SegmentData(TextOf("context", len),
                         IF isWarning THEN colors.warningBg ELSE colors.contextBg,
                         IF isWarning THEN colors.warningFg ELSE colors.contextFg)

\* ext: what the call reads from outside the renderer (the source-control
\* snapshot) and the length of the text the formatter produces
renderSegment(cfg, segment, hookData, info, colors, ext) ==
  CASE segment.type = "directory" ->
         SegmentData(TextOf("directory", ext.len), colors.modeBg, colors.modeFg)
    [] segment.type = "model" ->
         SegmentData(TextOf("model", ext.len), colors.modelBg, colors.modelFg)
    [] segment.type = "git" ->
         IF ~needsSegmentInfo(cfg, "git") \/ ~ext.gitInfo THEN NoSegment
         ELSE SegmentData(TextOf("git", ext.len), colors.gitBg, colors.gitFg)
    [] segment.type = "session" ->
         IF ~info.session.present THEN NoSegment
         ELSE SegmentData(TextOf("session", ext.len), colors.sessionBg, colors.sessionFg)
    [] segment.type = "tmux" ->
         IF ~needsSegmentInfo(cfg, "tmux") THEN NoSegment
         ELSE SegmentData(TextOf("tmux", ext.len), colors.tmuxBg, colors.tmuxFg)
    [] segment.type = "context" ->
         IF ~needsSegmentInfo(cfg, "context") THEN NoSegment
         ELSE renderContext(info.context, colors, segment, ext.len)
    [] segment.type = "metrics" ->
         SegmentData(TextOf("metrics", ext.len), colors.metricsBg, colors.metricsFg)
    [] segment.type = "block" ->
         IF ~info.block.present THEN NoSegment
         ELSE SegmentData(TextOf("block", ext.len), colors.blockBg, colors.blockFg)
    [] segment.type = "today" ->
         IF ~info.today.present THEN NoSegment
         ELSE SegmentData(TextOf("today", ext.len), colors.todayBg, colors.todayFg)
    [] segment.type = "version" ->
         IF ~hookData.version THEN NoSegment
         ELSE SegmentData(TextOf("version", ext.len), colors.versionBg, colors.versionFg)
    [] OTHER -> NoSegment

RenderedSegment(type, data) ==
  [type |-> type, text |-> data.text, bgColor |-> data.bgColor,
   fgColor |-> data.fgColor]

(***************************************************************************)
(* Line composition.                                                       *)
(***************************************************************************)
calculateSegmentWidth(cfg, segment, isFirst) ==
  LET textWidth == visibleLength(segment.text)
  IN  IF cfg.style = "capsule"
        THEN textWidth + 4 + (IF isFirst THEN 0 ELSE 1)
        ELSE textWidth + 3

RECURSIVE BuildFrom(_, _, _, _)
BuildFrom(cfg, segments, colors, i) ==
  IF i > Len(segments) THEN <<>>
  ELSE LET segment == segments[i]
           isFirst == i = 1
           isLast == i = Len(segments)
           nextBgColor ==
             IF ~isLast THEN getSegmentBgColor(segments[i + 1].type, colors)
             ELSE <<>>
       IN  (IF cfg.style = "capsule" /\ ~isFirst THEN SPACE ELSE <<>>)
           \o formatSegment(cfg, segment.bgColor, segment.fgColor, segment.text,
                            nextBgColor, colors)
           \o BuildFrom(cfg, segments, colors, i + 1)

buildLineFromSegments(cfg, segments, colors) ==
  colors.reset \o BuildFrom(cfg, segments, colors, 1)

\* a wrap test that forgets the width of the segment being placed
MustFlush_ignoresSegment(currentLineSegments, currentLineWidth, segmentWidth, terminalWidth) ==
  Len(currentLineSegments) > 0 /\ currentLineWidth > terminalWidth

\* the test of the wrap loop: flush the current physical line first
MustFlush(currentLineSegments, currentLineWidth, segmentWidth, terminalWidth) ==
  Len(currentLineSegments) > 0 /\ currentLineWidth + segmentWidth > terminalWidth

\* one iteration of the wrap loop over renderedSegments
WrapStep(cfg, colors, terminalWidth, st, segment) ==
  LET segmentWidth ==
        calculateSegmentWidth(cfg, segment, Len(st.currentLineSegments) = 0)
      flush ==
        MustFlush(st.currentLineSegments, st.currentLineWidth, segmentWidth,
                  terminalWidth)
  IN  [outputLines |->
         IF flush
           THEN Append(st.outputLines,
                       buildLineFromSegments(cfg, st.currentLineSegments, colors))
           ELSE st.outputLines,
       currentLineSegments |->
         IF flush THEN <<segment>> ELSE Append(st.currentLineSegments, segment),
       currentLineWidth |->
         IF flush THEN segmentWidth ELSE st.currentLineWidth + segmentWidth]

RECURSIVE WrapLoop(_, _, _, _, _)
WrapLoop(cfg, colors, terminalWidth, st, segments) ==
  IF segments = <<>> THEN st
  ELSE WrapLoop(cfg, colors, terminalWidth,
                WrapStep(cfg, colors, terminalWidth, st, Head(segments)),
                Tail(segments))

\* a composition that wraps at a width of zero or less
ComposeLine_wrapsAtZero(cfg, colors, terminalWidth, outputLines, renderedSegments) ==
  IF Len(renderedSegments) = 0 THEN outputLines
  ELSE IF ~terminalWidth.known
    THEN Append(outputLines, buildLineFromSegments(cfg, renderedSegments, colors))
  ELSE LET st == WrapLoop(cfg, colors, terminalWidth.value,
                          [outputLines |-> outputLines,
                           currentLineSegments |-> <<>>,
                           currentLineWidth |-> 0],
                          renderedSegments)
       IN  IF Len(st.currentLineSegments) > 0
             THEN Append(st.outputLines,
                         buildLineFromSegments(cfg, st.currentLineSegments, colors))
             ELSE st.outputLines

\* lines 219-244: what one configured line adds to outputLines
ComposeLine(cfg, colors, terminalWidth, outputLines, renderedSegments) ==
  IF Len(renderedSegments) = 0 THEN outputLines
  ELSE IF ~terminalWidth.known \/ terminalWidth.value <= 0
    THEN Append(outputLines, buildLineFromSegments(cfg, renderedSegments, colors))
  ELSE LET st == WrapLoop(cfg, colors, terminalWidth.value,
                          [outputLines |-> outputLines,
                           currentLineSegments |-> <<>>,
                           currentLineWidth |-> 0],
                          renderedSegments)
       IN  IF Len(st.currentLineSegments) > 0
             THEN Append(st.outputLines,
                         buildLineFromSegments(cfg, st.currentLineSegments, colors))
             ELSE st.outputLines

(***************************************************************************)
(* The renderer as a state machine: one generateStatusline call.           *)
(***************************************************************************)
VARIABLES
  config,            \* this.config
  hookData,          \* the argument of generateStatusline
  pc,                \* where the call stands
  info,              \* usageInfo, blockInfo, todayInfo, contextInfo, metricsInfo
  terminalWidth,     \* auto-wrap: the result of getTerminalWidth()
  cursor,            \* auto-wrap: the configured line and the segment rendered next
  renderedSegments,  \* auto-wrap: renderedSegments of the current configured line
  outputLines,       \* auto-wrap: outputLines
  wrap,              \* the wrap loop taken alone: its local state
  resolved,          \* theme resolution taken alone: what the call gave
  tasks,             \* no auto-wrap: one renderLine call per configured line
  asked,             \* history: per configured line, the renderSegment calls made
  invoked,           \* history: per facts provider, the calls made to it
  result             \* the text the call resolves to

vars ==
  <<config, hookData, pc, info, terminalWidth, cursor, renderedSegments,
    outputLines, wrap, resolved, tasks, asked, invoked, result>>

Percentages == {75, 100}

Entries ==
  {Entry(k, e, NoThreshold) : k \in ConfiguredKinds, e \in BOOLEAN}

LineConfigsOfLen(n) ==
  {s \in [1..n -> Entries] :
     \A i \in 1..n : \A j \in 1..n : i # j => s[i].type # s[j].type}

LineConfigs == UNION {LineConfigsOfLen(n) : n \in 0..MaxSegs}

RECURSIVE TotalLen(_)
TotalLen(ls) == IF ls = <<>> THEN 0 ELSE Len(Head(ls)) + TotalLen(Tail(ls))

LinesConfigs ==
  UNION {{ls \in [1..n -> LineConfigs] : TotalLen(ls) <= MaxSegs} :
           n \in 0..MaxLines}

\* the renderer is run with a built-in theme and with the custom theme
\* that has no colour table
ThemeConfigs ==
  {[theme |-> "dark", custom |-> NoTable],
   [theme |-> "custom", custom |-> NoTable]}

Configs ==
  {[style |-> st, autoWrap |-> aw, colorSupport |-> cs, theme |-> th.theme,
    custom |-> th.custom, lines |-> ls] :
     st \in Styles, aw \in BOOLEAN, cs \in ColorSupports, th \in ThemeConfigs,
     ls \in LinesConfigs}

\* getTerminalWidth(): null, or a number that may be zero or negative
TermWidths ==
  {[known |-> FALSE, value |-> 0]}
    \cup {[known |-> TRUE, value |-> w] :
            w \in {-1, 0, NarrowWidth, WideWidth}}

NoResult == [returned |-> FALSE, text |-> <<>>]

NoResolved ==
  [call |-> "", table |-> NoTable, threw |-> FALSE, warned |-> FALSE,
   colors |-> ResolveColors(NoTable, NoTable, "none")]

NoWrap == [outputLines |-> <<>>, currentLineSegments |-> <<>>, currentLineWidth |-> 0]

\* the facts providers, by the segment kind they serve: usageProvider,
\* blockProvider, todayProvider, contextProvider, metricsProvider, and the
\* two services a renderSegment call may await, gitService and tmuxService
FactsProviders == {"session", "block", "today", "context", "metrics"}

Services == {"git", "tmux"}

Providers == FactsProviders \cup Services

NoCalls == [p \in Providers |-> 0]

\* a provider that is called whether or not a line enables its segment
Invocations_unguarded(cfg, provider) ==
  IF provider \in FactsProviders THEN 1 ELSE 0

\* lines 123-144: the calls generateStatusline makes to a provider before
\* it composes anything: one when a line enables its segment, else none
Invocations(cfg, provider) ==
  IF provider \in FactsProviders /\ needsSegmentInfo(cfg, provider) THEN 1 ELSE 0

\* lines 452-454 and 484-485: a renderSegment call for git or tmux awaits
\* the service once, unless no line enables the kind
AwaitService(calls, cfg, segment) ==
  IF segment.type \in Services /\ needsSegmentInfo(cfg, segment.type)
    THEN [calls EXCEPT ![segment.type] = @ + 1]
    ELSE calls

Init ==
  /\ config \in Configs
  /\ hookData \in [version : IF "version" \in ConfiguredKinds THEN BOOLEAN ELSE {TRUE}]
  /\ pc = "facts"
  /\ info = [session |-> NoInfo, block |-> NoInfo, today |-> NoInfo,
             context |-> NoInfo, metrics |-> NoInfo]
  /\ terminalWidth = [known |-> FALSE, value |-> 0]
  /\ cursor = [line |-> 1, seg |-> 1]
  /\ renderedSegments = <<>>
  /\ outputLines = <<>>
  /\ wrap = NoWrap
  /\ resolved = NoResolved
  /\ tasks = <<>>
  /\ asked = [l \in 1..Len(config.lines) |-> <<>>]
  /\ invoked = NoCalls
  /\ result = NoResult

\* what a facts provider may answer
Answers(provider) ==
  IF provider = "context"
    THEN {NoInfo} \cup {Info(TRUE, p) : p \in Percentages}
    ELSE {NoInfo, Info(TRUE, 0)}

\* provider ? await provider.get...() : null
Fetched(cfg, provider) ==
  IF needsSegmentInfo(cfg, provider) THEN Answers(provider) ELSE {NoInfo}

\* lines 123-144: a provider is asked only when its segment is needed
FetchInfo ==
  /\ pc = "facts"
  /\ info' \in [session : Fetched(config, "session"),
                block : Fetched(config, "block"),
                today : Fetched(config, "today"),
                context : Fetched(config, "context"),
                metrics : Fetched(config, "metrics")]
  /\ invoked' = [p \in Providers |-> invoked[p] + Invocations(config, p)]
  /\ pc' = "dispatch"
  /\ UNCHANGED <<config, hookData, terminalWidth, cursor, renderedSegments,
                 outputLines, wrap, resolved, tasks, asked, result>>

\* the loop over the configured lines passes a line without enabled
\* segments without awaiting anything (line 219)
RECURSIVE NextAwaitingLine(_, _)
NextAwaitingLine(cfg, l) ==
  IF l <= Len(cfg.lines) /\ Len(EnabledSegments(cfg.lines[l])) = 0
    THEN NextAwaitingLine(cfg, l + 1)
    ELSE l

\* lines 146-155 and 182-195: the call runs up to its first await of
\* renderSegment, or to its return (line 247) when no line has a segment
StartAutoWrap ==
  /\ pc = "dispatch"
  /\ config.autoWrap
  /\ IF getThemeColors(config).threw
       THEN /\ pc' = "failed"
            /\ UNCHANGED <<terminalWidth, cursor, result>>
       ELSE /\ terminalWidth' \in TermWidths
            /\ cursor' = [line |-> NextAwaitingLine(config, 1), seg |-> 1]
            /\ IF cursor'.line > Len(config.lines)
                 THEN /\ pc' = "done"
                      /\ result' = [returned |-> TRUE, text |-> JoinNL(outputLines)]
                 ELSE /\ pc' = "autowrap"
                      /\ UNCHANGED result
  /\ UNCHANGED <<config, hookData, info, renderedSegments, outputLines, wrap, resolved,
                 tasks, asked, invoked>>

\* what one renderSegment call reads from outside: the source-control
\* snapshot (present or not) and the length of the text it produces
Inputs == [gitInfo : BOOLEAN, len : {1}]

\* lines 196-247: one await of renderSegment and the code that follows it up
\* to the next await: after the last segment of a configured line the line
\* is composed (lines 219-244), and after the last line the text is returned
AutoWrapRenderSegment ==
  /\ pc = "autowrap"
  /\ \E ext \in Inputs :
       LET segments == EnabledSegments(config.lines[cursor.line])
           segment == segments[cursor.seg]
           colors == getThemeColors(config).colors
           segmentData == renderSegment(config, segment, hookData, info, colors, ext)
           pushed ==
             IF segmentData.shown
               THEN Append(renderedSegments,
                           RenderedSegment(segment.type, segmentData))
               ELSE renderedSegments
           composed ==
             ComposeLine(config, colors, terminalWidth, outputLines, pushed)
           nextLine == NextAwaitingLine(config, cursor.line + 1)
       IN  /\ segment.type # "git" => ext.gitInfo
           /\ invoked' = AwaitService(invoked, config, segment)
           /\ asked' = [asked EXCEPT ![cursor.line] =
                          Append(@, [type |-> segment.type,
                                     shown |-> segmentData.shown])]
           /\ IF cursor.seg < Len(segments)
                THEN /\ renderedSegments' = pushed
                     /\ cursor' = [cursor EXCEPT !.seg = @ + 1]
                     /\ UNCHANGED <<outputLines, pc, result>>
                ELSE /\ renderedSegments' = <<>>
                     /\ outputLines' = composed
                     /\ cursor' = [line |-> nextLine, seg |-> 1]
                     /\ IF nextLine > Len(config.lines)
                          THEN /\ pc' = "done"
                               /\ result' = [returned |-> TRUE,
                                             text |-> JoinNL(composed)]
                          ELSE UNCHANGED <<pc, result>>
  /\ UNCHANGED <<config, hookData, info, terminalWidth, wrap, resolved, tasks>>

\* lines 157-169 and 306-316: every renderLine call runs up to its first
\* await; a call that throws rejects Promise.all
StartLines ==
  /\ pc = "dispatch"
  /\ ~config.autoWrap
  /\ IF Len(config.lines) > 0 /\ getThemeColors(config).threw
       THEN /\ pc' = "failed"
            /\ UNCHANGED tasks
       ELSE /\ pc' = "lines"
            /\ tasks' =
                 [l \in 1..Len(config.lines) |->
                    [i |-> 1,
                     line |-> getThemeColors(config).colors.reset,
                     done |-> Len(EnabledSegments(config.lines[l])) = 0]]
  /\ UNCHANGED <<config, hookData, info, terminalWidth, cursor, renderedSegments,
                 outputLines, wrap, resolved, asked, invoked, result>>

\* lines 318-356: one iteration of the loop of renderLine, after which the
\* call is at its next await or has returned
RenderLineStep(l) ==
  /\ pc = "lines"
  /\ ~tasks[l].done
  /\ \E ext \in Inputs :
       LET segments == EnabledSegments(config.lines[l])
           colors == getThemeColors(config).colors
           i == tasks[l].i
           segment == segments[i]
           isFirst == i = 1
           isLast == i = Len(segments)
           nextBgColor ==
             IF ~isLast THEN getSegmentBgColor(segments[i + 1].type, colors)
             ELSE <<>>
           segmentData == renderSegment(config, segment, hookData, info, colors, ext)
           piece ==
             IF segmentData.shown
               THEN (IF config.style = "capsule" /\ ~isFirst THEN SPACE ELSE <<>>)
                    \o formatSegment(config, segmentData.bgColor,
                                     segmentData.fgColor, segmentData.text,
                                     nextBgColor, colors)
               ELSE <<>>
       IN  /\ segment.type # "git" => ext.gitInfo
           /\ ~segmentData.shown => ext.len = 1
           /\ invoked' = AwaitService(invoked, config, segment)
           /\ tasks' = [tasks EXCEPT ![l] =
                          [i |-> i + 1, line |-> tasks[l].line \o piece,
                           done |-> isLast]]
           /\ asked' = [asked EXCEPT ![l] =
                          Append(@, [type |-> segment.type,
                                     shown |-> segmentData.shown])]
  /\ UNCHANGED <<config, hookData, pc, info, terminalWidth, cursor,
                 renderedSegments, outputLines, wrap, resolved, result>>

\* a join that lists the lines from the last configured line to the first
JoinLines_lastLineFirst ==
  /\ pc = "lines"
  /\ \A l \in 1..Len(tasks) : tasks[l].done
  /\ result' =
       [returned |-> TRUE,
        text |-> JoinNL(FilterNonEmpty(
                   [l \in 1..Len(tasks) |-> tasks[Len(tasks) + 1 - l].line]))]
  /\ pc' = "done"
  /\ UNCHANGED <<config, hookData, info, terminalWidth, cursor, renderedSegments,
                 outputLines, wrap, resolved, tasks, asked, invoked>>

\* line 171
JoinLines ==
  /\ pc = "lines"
  /\ \A l \in 1..Len(tasks) : tasks[l].done
  /\ result' =
       [returned |-> TRUE,
        text |-> JoinNL(FilterNonEmpty([l \in 1..Len(tasks) |-> tasks[l].line]))]
  /\ pc' = "done"
  /\ UNCHANGED <<config, hookData, info, terminalWidth, cursor, renderedSegments,
                 outputLines, wrap, resolved, tasks, asked, invoked>>

Next ==
  \/ FetchInfo
  \/ StartAutoWrap
  \/ AutoWrapRenderSegment
  \/ StartLines
  \/ \E l \in 1..Len(config.lines) : RenderLineStep(l)
  \/ JoinLines

Spec == Init /\ [][Next]_vars

(***************************************************************************)
(* The wrap loop taken alone (lines 226-244), one iteration at a time,     *)
(* over every list of rendered segments and every positive width.          *)
(***************************************************************************)
KindOrder ==
  <<"directory", "git", "context", "model", "session", "tmux", "metrics",
    "block", "today", "version">>

WrapConfigs ==
  {[style |-> st, autoWrap |-> TRUE, colorSupport |-> "truecolor",
    theme |-> "dark", custom |-> NoTable, lines |-> <<>>] : st \in Styles}

\* the rendered segments of one configured line, with texts of every length
RenderedLists ==
  UNION {{[i \in 1..n |->
             LET colors == getThemeColors(CHOOSE c \in WrapConfigs : TRUE).colors
             IN  RenderedSegment(KindOrder[i],
                   SegmentData(TextOf(KindOrder[i], lens[i]),
                               getSegmentBgColor(KindOrder[i], colors), <<>>))] :
           lens \in [1..n -> 1..MaxTextWidth]} : n \in 1..MaxSegs}

InitWrap ==
  /\ config \in WrapConfigs
  /\ hookData = [version |-> TRUE]
  /\ pc = "wrap"
  /\ info = [session |-> NoInfo, block |-> NoInfo, today |-> NoInfo,
             context |-> NoInfo, metrics |-> NoInfo]
  /\ terminalWidth \in {[known |-> TRUE, value |-> w] : w \in 1..MaxTermWidth}
  /\ cursor = [line |-> 1, seg |-> 1]
  /\ renderedSegments \in RenderedLists
  /\ outputLines = <<>>
  /\ wrap = NoWrap
  /\ resolved = NoResolved
  /\ tasks = <<>>
  /\ asked = <<>>
  /\ invoked = NoCalls
  /\ result = NoResult

\* lines 229-240: one iteration
WrapIteration ==
  /\ pc = "wrap"
  /\ cursor.seg <= Len(renderedSegments)
  /\ wrap' = WrapStep(config, getThemeColors(config).colors, terminalWidth.value,
                      wrap, renderedSegments[cursor.seg])
  /\ cursor' = [cursor EXCEPT !.seg = @ + 1]
  /\ UNCHANGED <<config, hookData, pc, info, terminalWidth, renderedSegments,
                 outputLines, resolved, tasks, asked, invoked, result>>

\* lines 242-244: the last physical line
WrapFinish ==
  /\ pc = "wrap"
  /\ cursor.seg > Len(renderedSegments)
  /\ outputLines' =
       IF Len(wrap.currentLineSegments) > 0
         THEN Append(wrap.outputLines,
                     buildLineFromSegments(config, wrap.currentLineSegments,
                                           getThemeColors(config).colors))
         ELSE wrap.outputLines
  /\ pc' = "wrapped"
  /\ UNCHANGED <<config, hookData, info, terminalWidth, cursor, renderedSegments,
                 wrap, resolved, tasks, asked, invoked, result>>

NextWrap == WrapIteration \/ WrapFinish

SpecWrap == InitWrap /\ [][NextWrap]_vars

(***************************************************************************)
(* Theme resolution taken alone: getTheme and getThemeColors applied to    *)
(* every theme name, capability level and custom colour table.             *)
(***************************************************************************)
\* names that are not registered, next to the registered ones and "custom"
UnknownThemes == {"solarized", "dark-ansi-ansi", "Dark"}

ThemeNames == BUILT_IN_THEMES \cup UnknownThemes \cup {"custom"}

\* a custom table may leave categories out and may have a warning pair
CustomTables ==
  {NoTable}
    \cup {Table("custom", m, w) : m \in {{}, {"git"}}, w \in {"defined", "absent"}}

\* "undefined": getTheme called without its second argument
ThemeInputs ==
  {[style |-> "powerline", autoWrap |-> FALSE, colorSupport |-> cs,
    theme |-> th, custom |-> cu, lines |-> <<>>] :
     cs \in ColorSupports \cup {"undefined"}, th \in ThemeNames,
     cu \in CustomTables}

InitTheme ==
  /\ config \in ThemeInputs
  /\ hookData = [version |-> TRUE]
  /\ pc = "theme"
  /\ info = [session |-> NoInfo, block |-> NoInfo, today |-> NoInfo,
             context |-> NoInfo, metrics |-> NoInfo]
  /\ terminalWidth = [known |-> FALSE, value |-> 0]
  /\ cursor = [line |-> 1, seg |-> 1]
  /\ renderedSegments = <<>>
  /\ outputLines = <<>>
  /\ wrap = NoWrap
  /\ resolved = NoResolved
  /\ tasks = <<>>
  /\ asked = <<>>
  /\ invoked = NoCalls
  /\ result = NoResult

\* themes/index.ts 86-104
CallGetTheme ==
  /\ pc = "theme"
  /\ resolved' = [NoResolved EXCEPT
                    !.call = "getTheme",
                    !.table = getTheme(config.theme, config.colorSupport)]
  /\ pc' = "resolved"
  /\ UNCHANGED <<config, hookData, info, terminalWidth, cursor, renderedSegments,
                 outputLines, wrap, tasks, asked, invoked, result>>

\* lines 577-687; the capability level is one of the four (line 582)
CallGetThemeColors ==
  /\ pc = "theme"
  /\ config.colorSupport \in ColorSupports
  /\ LET r == getThemeColors(config)
     IN  resolved' = [call |-> "getThemeColors", table |-> NoTable,
                      threw |-> r.threw, warned |-> r.warned,
                      colors |-> IF r.threw THEN NoResolved.colors ELSE r.colors]
  /\ pc' = "resolved"
  /\ UNCHANGED <<config, hookData, info, terminalWidth, cursor, renderedSegments,
                 outputLines, wrap, tasks, asked, invoked, result>>

NextTheme == CallGetTheme \/ CallGetThemeColors

SpecTheme == InitTheme /\ [][NextTheme]_vars

(***************************************************************************)
(* Reading an emitted line back: its segment texts, in order.              *)
(***************************************************************************)
TextsOf(line) == SelectSeq(line, LAMBDA t : t.t = "text")

KindsOf(line) == [i \in 1..Len(TextsOf(line)) |-> TextsOf(line)[i].hex[1]]

\* the sum of calculateSegmentWidth over the segments of a physical line
RECURSIVE WidthFrom(_, _, _)
WidthFrom(cfg, texts, i) ==
  IF i > Len(texts) THEN 0
  ELSE calculateSegmentWidth(cfg, [text |-> <<texts[i]>>], i = 1)
       + WidthFrom(cfg, texts, i + 1)

LineWidth(cfg, line) == WidthFrom(cfg, TextsOf(line), 1)

\* C1: in the wrap loop, every physical line is at most as wide as the
\* terminal, except a line of exactly one segment that is itself too wide
C1_Fits(line) ==
  \/ LineWidth(config, line) <= terminalWidth.value
  \/ /\ Len(TextsOf(line)) = 1
     /\ LineWidth(config, line) > terminalWidth.value

C1_BinPacking ==
  /\ \A k \in 1..Len(wrap.outputLines) : C1_Fits(wrap.outputLines[k])
  /\ \A k \in 1..Len(outputLines) : C1_Fits(outputLines[k])

\* a finished wrap with a flush: a physical line of two segments that
\* fills the terminal exactly, and a third segment moved to the next line
C1_Witness ==
  /\ pc = "wrapped"
  /\ Len(outputLines) >= 2
  /\ \E k \in 1..Len(outputLines) :
       /\ Len(TextsOf(outputLines[k])) >= 2
       /\ LineWidth(config, outputLines[k]) = terminalWidth.value

(***************************************************************************)
(* Reading the returned text back.                                         *)
(***************************************************************************)
\* the physical lines of a text: its pieces between line breaks
RECURSIVE SplitFrom(_, _, _)
SplitFrom(text, i, acc) ==
  IF i > Len(text) THEN <<acc>>
  ELSE IF text[i].t = "nl" THEN <<acc>> \o SplitFrom(text, i + 1, <<>>)
  ELSE SplitFrom(text, i + 1, Append(acc, text[i]))

PhysicalLines(text) == IF text = <<>> THEN <<>> ELSE SplitFrom(text, 1, <<>>)

RECURSIVE PositionsFrom(_, _, _)
PositionsFrom(line, t, i) ==
  IF i > Len(line) THEN <<>>
  ELSE IF line[i].t = t THEN <<i>> \o PositionsFrom(line, t, i + 1)
  ELSE PositionsFrom(line, t, i + 1)

PositionsOf(line, t) == PositionsFrom(line, t, 1)

SpacesIn(s) == Len(SelectSeq(s, LAMBDA t : t.t = "sp"))

RECURSIVE Flatten(_)
Flatten(ss) == IF ss = <<>> THEN <<>> ELSE Head(ss) \o Flatten(Tail(ss))

\* the kinds of the segments renderSegment gave for configured line l
ShownKinds(l) ==
  LET shown == SelectSeq(asked[l], LAMBDA a : a.shown)
  IN  [i \in 1..Len(shown) |-> shown[i].type]

AllShown == [l \in 1..Len(asked) |-> ShownKinds(l)]

RECURSIVE CountTo(_, _)
CountTo(ss, k) == IF k = 0 THEN 0 ELSE Len(ss[k]) + CountTo(ss, k - 1)

Coloured == config.colorSupport # "none"

Colors == getThemeColors(config).colors

Symbols == initializeSymbols(config.style)

NoWrapping ==
  ~config.autoWrap \/ ~terminalWidth.known \/ terminalWidth.value <= 0

\* arrow style: the background a segment is drawn with, read two codes
\* and a blank before its text
DrawnBg(line, p) == IF Coloured THEN <<line[p - 3]>> ELSE <<>>

\* arrow style: what lies between the blank after the text at p and the
\* first code of the segment whose text is at q
Separator(line, p, q) ==
  SubSeq(line, p + 2, q - 2 - (IF Coloured THEN 2 ELSE 0))

\* C2: the configured order, own copy
C2_EnabledKinds(l) ==
  LET on == SelectSeq(config.lines[l], LAMBDA e : e.enabled)
  IN  [i \in 1..Len(on) |-> on[i].type]

\* C2: segments are asked for in the configured order and only when
\* enabled; the output holds the rendered ones in that order, none dropped,
\* duplicated or reordered, and a physical line ends where a configured
\* line ends
C2_OrderAndCompleteness ==
  /\ pc \in {"autowrap", "lines", "done"} =>
       \A l \in 1..Len(asked) :
         /\ Len(asked[l]) <= Len(C2_EnabledKinds(l))
         /\ \A i \in 1..Len(asked[l]) : asked[l][i].type = C2_EnabledKinds(l)[i]
  /\ pc = "lines" =>
       \A l \in 1..Len(tasks) : KindsOf(tasks[l].line) = ShownKinds(l)
  /\ pc = "autowrap" =>
       Flatten([k \in 1..Len(outputLines) |-> KindsOf(outputLines[k])])
         \o [i \in 1..Len(renderedSegments) |-> renderedSegments[i].type]
       = Flatten(AllShown)
  /\ pc = "done" =>
       LET phys == PhysicalLines(result.text)
           kinds == [k \in 1..Len(phys) |-> KindsOf(phys[k])]
       IN  /\ \A l \in 1..Len(asked) : Len(asked[l]) = Len(C2_EnabledKinds(l))
           /\ Flatten(kinds) = Flatten(AllShown)
           /\ \A l \in 1..Len(asked) :
                \E k \in 0..Len(phys) : CountTo(kinds, k) = CountTo(AllShown, l)

\* a wrapped result: a configured line with a suppressed segment between
\* two rendered ones, split over two physical lines
C2_Witness ==
  /\ pc = "done"
  /\ config.autoWrap
  /\ Len(config.lines) = 1
  /\ Len(asked[1]) = 3
  /\ ~asked[1][2].shown
  /\ Len(PhysicalLines(result.text)) = 2

\* C3: without wrapping, every configured line with a rendered segment is
\* exactly one physical line that holds all its rendered segments
C3_OnePhysicalLine ==
  (pc = "done" /\ NoWrapping) =>
    LET phys == SelectSeq(PhysicalLines(result.text),
                          LAMBDA ln : TextsOf(ln) # <<>>)
        want == SelectSeq(AllShown, LAMBDA ks : ks # <<>>)
    IN  /\ Len(phys) = Len(want)
        /\ \A j \in 1..Len(phys) : KindsOf(phys[j]) = want[j]

\* auto-wrap with a negative width: two configured lines, one of them with
\* two rendered segments
C3_Witness ==
  /\ pc = "done"
  /\ config.autoWrap
  /\ terminalWidth.known
  /\ terminalWidth.value < 0
  /\ Len(config.lines) = 2
  /\ \A l \in 1..2 : Len(ShownKinds(l)) >= 1
  /\ \E l \in 1..2 : Len(ShownKinds(l)) = 2

\* C4: a configured line without a rendered segment adds nothing to the
\* returned text: every physical line of the text holds a segment
C4_EmptyLineIsEmpty ==
  pc = "done" =>
    \A k \in 1..Len(PhysicalLines(result.text)) :
      TextsOf(PhysicalLines(result.text)[k]) # <<>>

\* C5: arrow style: after a segment that another follows on the physical
\* line come reset, the background the following segment is drawn with,
\* the segment's own background as a foreground, and the arrow
C5_ArrowTransition ==
  (pc = "done" /\ config.style # "capsule") =>
    \A k \in 1..Len(PhysicalLines(result.text)) :
      LET line == PhysicalLines(result.text)[k]
          at == PositionsOf(line, "text")
      IN  \A i \in 1..(Len(at) - 1) :
            Separator(line, at[i], at[i + 1])
              = Colors.reset \o DrawnBg(line, at[i + 1])
                \o extractBgToFg(DrawnBg(line, at[i]),
                                 config.colorSupport = "ansi")
                \o Symbols.right

\* C6: arrow style: the last segment of a physical line ends with reset,
\* its own background as a foreground, the arrow and a reset
C6_ArrowEnding ==
  (pc = "done" /\ config.style # "capsule") =>
    \A k \in 1..Len(PhysicalLines(result.text)) :
      LET line == PhysicalLines(result.text)[k]
          at == PositionsOf(line, "text")
      IN  Len(at) > 0 =>
            SubSeq(line, at[Len(at)] + 2, Len(line))
              = Colors.reset
                \o extractBgToFg(DrawnBg(line, at[Len(at)]),
                                 config.colorSupport = "ansi")
                \o Symbols.right \o Colors.reset

\* C7: capsule style: no blank before the first capsule of a physical line
\* and exactly one between two capsules
C7_CapsuleSpacing ==
  (pc = "done" /\ config.style = "capsule") =>
    \A k \in 1..Len(PhysicalLines(result.text)) :
      LET line == PhysicalLines(result.text)[k]
          lefts == PositionsOf(line, "left_rounded")
          rights == PositionsOf(line, "right_rounded")
      IN  /\ Len(lefts) > 0 => SpacesIn(SubSeq(line, 1, lefts[1] - 1)) = 0
          /\ \A i \in 1..(Len(lefts) - 1) :
               SpacesIn(SubSeq(line, rights[i] + 1, lefts[i + 1] - 1)) = 1

\* C8: the custom theme without a colour table never returns a text
C8_CustomThemeFails ==
  (config.theme = "custom" /\ config.custom = NoTable) => ~result.returned

ColorFields ==
  {"modeBg", "modeFg", "gitBg", "gitFg", "modelBg", "modelFg", "sessionBg",
   "sessionFg", "blockBg", "blockFg", "todayBg", "todayFg", "tmuxBg", "tmuxFg",
   "contextBg", "contextFg", "metricsBg", "metricsFg", "versionBg", "versionFg",
   "warningBg", "warningFg"}

\* C11: a colour set resolved at level none has the empty string for reset
\* and for every colour, the warning pair included; at every other level
\* reset is the reset code, which is not empty
C11_NoneIsEmpty ==
  (/\ pc = "resolved"
   /\ resolved.call = "getThemeColors"
   /\ ~resolved.threw) =>
    IF config.colorSupport = "none"
      THEN /\ resolved.colors.reset = <<>>
           /\ \A f \in ColorFields : resolved.colors[f] = <<>>
      ELSE /\ resolved.colors.reset = RESET_CODE
           /\ Len(resolved.colors.reset) > 0

\* a custom table with a warning pair and a missing category, resolved at
\* level none
C11_Witness ==
  /\ pc = "resolved"
  /\ resolved.call = "getThemeColors"
  /\ config.colorSupport = "none"
  /\ config.theme = "custom"
  /\ config.custom = Table("custom", {"git"}, "defined")
  /\ ~resolved.threw
  /\ resolved.colors.warningBg = <<>>

(***************************************************************************)
(* Usage segments (SegmentRenderer): session, daily total, billing block.  *)
(* A number is shown by the formatter that prints it; a value that is null *)
(* is NoValue, an option that is not configured is "undefined".            *)
(***************************************************************************)
NoValue == -1

\* a literal piece of text
Lit(s) == <<Tok("lit", <<s>>, "", 1)>>

\* utils/formatters: the text of a cost, of a token count, of a breakdown
formatCost(cost) == <<Tok("formatCost", <<cost>>, "", 1)>>

formatTokens(tokens) == <<Tok("formatTokens", <<tokens>>, "", 1)>>

formatTokenBreakdown(tokenBreakdown) ==
  <<Tok("formatTokenBreakdown", <<tokenBreakdown>>, "", 1)>>

\* utils/budget: getBudgetStatus(value, budget, warningThreshold).displayText
getBudgetStatus(value, budget, warningThreshold) ==
  <<Tok("budgetStatus", <<value, budget, warningThreshold>>, "", 1)>>

\* config.budget?.session / today / block
Budget(present, hasAmount, amount, warningThreshold, type) ==
  [present |-> present, hasAmount |-> hasAmount, amount |-> amount,
   warningThreshold |-> warningThreshold, type |-> type]

NoBudget == Budget(FALSE, FALSE, 0, NoThreshold, "undefined")

\* budget?.amount as the code tests it: a number that is not zero
AmountTruthy(budget) == budget.present /\ budget.hasAmount /\ budget.amount # 0

\* budget?.type
BudgetType(budget) == IF budget.present THEN budget.type ELSE "undefined"

formatUsageDisplay(cost, tokens, tokenBreakdown, type) ==
  CASE type = "cost" -> formatCost(cost)
    [] type = "tokens" -> formatTokens(tokens)
    [] type = "both" ->
         formatCost(cost) \o Lit(" (") \o formatTokens(tokens) \o Lit(")")
    [] type = "breakdown" -> formatTokenBreakdown(tokenBreakdown)
    [] OTHER -> formatCost(cost)

\* budget stands for (budget?.amount, budget?.type); warningThreshold is
\* the sixth argument, NoThreshold when undefined is passed (default 80)
formatUsageWithBudget(cost, tokens, tokenBreakdown, type, budget, warningThreshold) ==
  LET baseDisplay == formatUsageDisplay(cost, tokens, tokenBreakdown, type)
      budgetType == BudgetType(budget)
      threshold == IF warningThreshold = NoThreshold THEN 80 ELSE warningThreshold
      budgetValue ==
        IF budgetType = "tokens" /\ tokens # NoValue THEN tokens
        ELSE IF budgetType = "cost" /\ cost # NoValue THEN cost
        ELSE IF budgetType = "undefined" /\ cost # NoValue THEN cost
        ELSE NoValue
  IN  IF AmountTruthy(budget) /\ budget.amount > 0 /\ budgetValue # NoValue
        THEN baseDisplay \o getBudgetStatus(budgetValue, budget.amount, threshold)
        ELSE baseDisplay

\* x || 80 for a threshold: undefined and 0 give 80
OrEighty(budget) ==
  IF ~budget.present \/ budget.warningThreshold = NoThreshold
       \/ budget.warningThreshold = 0
    THEN 80 ELSE budget.warningThreshold

\* budget?.warningThreshold
ThresholdOf(budget) ==
  IF budget.present THEN budget.warningThreshold ELSE NoThreshold

renderSession(cfg, usageInfo, colors) ==
  LET type == IF cfg.segment.type = "undefined" THEN "cost" ELSE cfg.segment.type
      costSource == cfg.segment.costSource
      sessionBudget == cfg.budget.session
      getCost ==
        CASE costSource = "calculated" -> usageInfo.calculatedCost
          [] costSource = "official" -> usageInfo.officialCost
          [] OTHER -> usageInfo.cost
      formattedUsage ==
        formatUsageWithBudget(getCost, usageInfo.tokens, usageInfo.tokenBreakdown,
                              type, sessionBudget, OrEighty(sessionBudget))
  IN  SegmentData(Glyph("session_cost") \o SPACE \o formattedUsage,
                  colors.sessionBg, colors.sessionFg)

renderToday(cfg, todayInfo, colors) ==
  LET type == IF cfg.segment.type = "undefined" THEN "cost" ELSE cfg.segment.type
      todayBudget == cfg.budget.today
  IN  SegmentData(
        Glyph("today_cost") \o SPACE
          \o formatUsageWithBudget(todayInfo.cost, todayInfo.tokens,
                                   todayInfo.tokenBreakdown, type, todayBudget,
                                   ThresholdOf(todayBudget)),
        colors.todayBg, colors.todayFg)

\* timeRemaining in minutes as "<h>h <m>m" or "<m>m"
TimeStr(timeRemaining) ==
  LET hours == timeRemaining \div 60
      minutes == timeRemaining % 60
  IN  IF hours > 0
        THEN <<Tok("number", <<hours>>, "", 1)>> \o Lit("h ")
             \o <<Tok("number", <<minutes>>, "", 1)>> \o Lit("m")
        ELSE <<Tok("number", <<minutes>>, "", 1)>> \o Lit("m")

\* the cost burn rate, held in cents per hour: cents below one dollar
CostBurn(burnRate) ==
  IF burnRate = NoValue THEN Lit("N/A")
  ELSE IF burnRate < 100
    THEN <<Tok("toFixed0", <<burnRate>>, "", 1)>> \o Lit("c/h")
  ELSE Lit("$") \o <<Tok("toFixed2", <<burnRate>>, "", 1)>> \o Lit("/h")

TokenBurn(tokenBurnRate) ==
  IF tokenBurnRate = NoValue THEN Lit("N/A")
  ELSE formatTokens(tokenBurnRate) \o Lit("/h")

\* lines 453-574: the text of a block that has cost or token data
BlockDisplayText(cfg, blockInfo) ==
  LET type == IF cfg.segment.type = "undefined" THEN "cost" ELSE cfg.segment.type
      burnType == cfg.segment.burnType
      blockBudget == cfg.budget.block
      timeStr ==
        IF blockInfo.timeRemaining # NoValue THEN TimeStr(blockInfo.timeRemaining)
        ELSE <<>>
      rateLimitSet ==
        /\ BudgetType(blockBudget) = "tokens"
        /\ AmountTruthy(blockBudget)
      weightedDisplay == formatTokens(blockInfo.weightedTokens)
      mainContent ==
        CASE type = "cost" ->
               formatUsageWithBudget(blockInfo.cost, NoValue, NoValue, "cost",
                                     blockBudget, ThresholdOf(blockBudget))
          [] type = "tokens" ->
               formatUsageWithBudget(NoValue, blockInfo.tokens, NoValue, "tokens",
                                     blockBudget, ThresholdOf(blockBudget))
          [] type = "weighted" ->
               IF rateLimitSet /\ blockInfo.weightedTokens # NoValue
                 THEN weightedDisplay
                      \o getBudgetStatus(blockInfo.weightedTokens,
                                         blockBudget.amount, OrEighty(blockBudget))
                 ELSE weightedDisplay \o Lit(" (weighted)")
          [] type = "both" ->
               formatUsageWithBudget(blockInfo.cost, blockInfo.tokens, NoValue,
                                     "both", blockBudget, ThresholdOf(blockBudget))
          [] type = "time" -> IF timeStr # <<>> THEN timeStr ELSE Lit("N/A")
          [] OTHER ->
               formatUsageWithBudget(blockInfo.cost, NoValue, NoValue, "cost",
                                     blockBudget, ThresholdOf(blockBudget))
      burnContent ==
        CASE burnType = "cost" -> Lit(" | ") \o CostBurn(blockInfo.burnRate)
          [] burnType = "tokens" -> Lit(" | ") \o TokenBurn(blockInfo.tokenBurnRate)
          [] burnType = "both" ->
               Lit(" | ") \o CostBurn(blockInfo.burnRate) \o Lit(" / ")
                 \o TokenBurn(blockInfo.tokenBurnRate)
          [] OTHER -> <<>>
  IN  IF type = "time" THEN mainContent
      ELSE IF timeStr # <<>>
        THEN mainContent \o burnContent \o Lit(" (") \o timeStr \o Lit(" left)")
      ELSE mainContent \o burnContent

\* a block segment whose time mode is decided before the test for data
renderBlock_timeBeforeDataTest(cfg, blockInfo, colors) ==
  LET displayText ==
        IF cfg.segment.type = "time" THEN BlockDisplayText(cfg, blockInfo)
        ELSE IF blockInfo.cost = NoValue /\ blockInfo.tokens = NoValue
          THEN Lit("No active block")
        ELSE BlockDisplayText(cfg, blockInfo)
  IN  SegmentData(Glyph("block_cost") \o SPACE \o displayText,
                  colors.blockBg, colors.blockFg)

renderBlock(cfg, blockInfo, colors) ==
  LET displayText ==
        IF blockInfo.cost = NoValue /\ blockInfo.tokens = NoValue
          THEN Lit("No active block")
          ELSE BlockDisplayText(cfg, blockInfo)
  IN  SegmentData(Glyph("block_cost") \o SPACE \o displayText,
                  colors.blockBg, colors.blockFg)

(***************************************************************************)
(* The usage segments taken alone: renderSession, renderToday and          *)
(* renderBlock applied to every snapshot, segment configuration and budget.*)
(***************************************************************************)
\* the variables of a generateStatusline call, at rest
CallAtRest ==
  /\ terminalWidth = [known |-> FALSE, value |-> 0]
  /\ cursor = [line |-> 1, seg |-> 1]
  /\ renderedSegments = <<>>
  /\ outputLines = <<>>
  /\ wrap = NoWrap
  /\ tasks = <<>>
  /\ asked = <<>>
  /\ invoked = NoCalls
  /\ result = NoResult

\* a ceiling that is not given, negative, zero or positive; a budget kind
\* that is not given, cost or tokens; a threshold that is given or not
Budgets ==
  {NoBudget}
    \cup {Budget(TRUE, FALSE, 0, NoThreshold, ty) :
            ty \in {"undefined", "cost", "tokens"}}
    \cup {Budget(TRUE, TRUE, a, NoThreshold, ty) :
            a \in {-5, 0, 10}, ty \in {"undefined", "cost", "tokens"}}
    \cup {Budget(TRUE, TRUE, 10, 50, ty) : ty \in {"undefined", "cost", "tokens"}}

UsageSegments ==
  {[kind |-> "session", type |-> ty, burnType |-> "undefined", costSource |-> cs] :
     ty \in {"undefined", "cost", "tokens", "both", "breakdown"},
     cs \in {"undefined", "calculated", "official"}}
    \cup {[kind |-> "today", type |-> ty, burnType |-> "undefined",
           costSource |-> "undefined"] :
            ty \in {"undefined", "cost", "tokens", "both", "breakdown"}}
    \cup {[kind |-> "block", type |-> ty, burnType |-> bt,
           costSource |-> "undefined"] :
            ty \in {"undefined", "cost", "tokens", "both", "time", "weighted"},
            bt \in {"undefined", "none", "cost", "tokens", "both"}}

UsageConfigs ==
  {[style |-> "powerline", autoWrap |-> FALSE, colorSupport |-> "truecolor",
    theme |-> "dark", custom |-> NoTable, lines |-> <<>>, segment |-> sg,
    budget |-> [session |-> b, today |-> b, block |-> b]] :
     sg \in UsageSegments, b \in Budgets}

\* usageInfo.session / todayInfo / blockInfo
UsageFacts(kind) ==
  {[cost |-> c, tokens |-> tk, tokenBreakdown |-> tk,
    calculatedCost |-> IF c = NoValue THEN NoValue ELSE c + 1,
    officialCost |-> NoValue,
    weightedTokens |-> w, timeRemaining |-> tr, burnRate |-> br,
    tokenBurnRate |-> tb] :
     c \in {NoValue, 4}, tk \in {NoValue, 9},
     w \in IF kind = "block" THEN {NoValue, 7} ELSE {NoValue},
     tr \in IF kind = "block" THEN {NoValue, 45, 125} ELSE {NoValue},
     br \in IF kind = "block" THEN {NoValue, 50, 250} ELSE {NoValue},
     tb \in IF kind = "block" THEN {NoValue, 6} ELSE {NoValue}}

InitUsage ==
  /\ config \in UsageConfigs
  /\ hookData = [version |-> TRUE]
  /\ pc = "usage"
  /\ info \in UsageFacts(config.segment.kind)
  /\ resolved = NoResolved
  /\ CallAtRest

CallFrame ==
  UNCHANGED <<config, hookData, info, terminalWidth, cursor, renderedSegments,
              outputLines, wrap, tasks, asked, invoked, result>>

\* part_000 275-307
CallRenderSession ==
  /\ pc = "usage"
  /\ config.segment.kind = "session"
  /\ resolved' = [call |-> "renderSession",
                  data |-> renderSession(config, info, getThemeColors(config).colors)]
  /\ pc' = "rendered"
  /\ CallFrame

\* part_000 582-603
CallRenderToday ==
  /\ pc = "usage"
  /\ config.segment.kind = "today"
  /\ resolved' = [call |-> "renderToday",
                  data |-> renderToday(config, info, getThemeColors(config).colors)]
  /\ pc' = "rendered"
  /\ CallFrame

\* part_000 443-580
CallRenderBlock ==
  /\ pc = "usage"
  /\ config.segment.kind = "block"
  /\ resolved' = [call |-> "renderBlock",
                  data |-> renderBlock(config, info, getThemeColors(config).colors)]
  /\ pc' = "rendered"
  /\ CallFrame

NextUsage == CallRenderSession \/ CallRenderToday \/ CallRenderBlock

SpecUsage == InitUsage /\ [][NextUsage]_vars

\* the text a usage segment gets under configuration cfg
UsageText(cfg) ==
  LET colors == getThemeColors(cfg).colors
  IN  CASE cfg.segment.kind = "session" -> renderSession(cfg, info, colors).text
        [] cfg.segment.kind = "today" -> renderToday(cfg, info, colors).text
        [] OTHER -> renderBlock(cfg, info, colors).text

HasToken(text, kind) == \E i \in 1..Len(text) : text[i].t = kind

\* C12: with a ceiling that is absent, zero or negative the text of the
\* session, daily-total and block (cost, tokens, both, weighted) segments
\* is the text produced with no budget configured, and holds no budget
\* status
C12_NoBudgetNoSuffix ==
  LET b == config.budget.block
      off == ~b.present \/ ~b.hasAmount \/ b.amount <= 0
  IN  (/\ pc = "rendered"
       /\ resolved.call \in {"renderSession", "renderToday", "renderBlock"}
       /\ resolved.call = "renderBlock" =>
            config.segment.type \in {"cost", "tokens", "both", "weighted"}
       /\ off) =>
        /\ resolved.data.text
             = UsageText([config EXCEPT !.budget =
                            [session |-> NoBudget, today |-> NoBudget,
                             block |-> NoBudget]])
        /\ ~HasToken(resolved.data.text, "budgetStatus")

\* C13: with a positive ceiling and no budget kind, the session and
\* daily-total texts end with the status of the cost when there is a cost,
\* else of the token count when there is one, else with no status
C13_BudgetKindDefault ==
  LET b == config.budget.session
      cost ==
        IF resolved.call = "renderSession"
          THEN CASE config.segment.costSource = "calculated" -> info.calculatedCost
                 [] config.segment.costSource = "official" -> info.officialCost
                 [] OTHER -> info.cost
          ELSE info.cost
      value == IF cost # NoValue THEN cost ELSE info.tokens
      text == resolved.data.text
  IN  (/\ pc = "rendered"
       /\ resolved.call \in {"renderSession", "renderToday"}
       /\ b.present /\ b.hasAmount /\ b.amount > 0 /\ b.type = "undefined") =>
        IF value = NoValue
          THEN ~HasToken(text, "budgetStatus")
          ELSE /\ text[Len(text)].t = "budgetStatus"
               /\ text[Len(text)].hex[1] = value

\* C16: a block without cost and without tokens shows the fixed message,
\* whatever the display type, burn type, budget, time and burn rates
C16_NoActiveBlock ==
  (/\ pc = "rendered"
   /\ resolved.call = "renderBlock"
   /\ info.cost = NoValue /\ info.tokens = NoValue) =>
    resolved.data.text = Glyph("block_cost") \o SPACE \o Lit("No active block")

\* time mode with a burn type, a positive budget, a time and burn rates
C16_Witness ==
  /\ pc = "rendered"
  /\ resolved.call = "renderBlock"
  /\ info.cost = NoValue /\ info.tokens = NoValue
  /\ config.segment.type = "time"
  /\ config.segment.burnType = "both"
  /\ config.budget.block.present /\ config.budget.block.amount > 0
  /\ info.timeRemaining = 125
  /\ info.burnRate = 250
  /\ info.weightedTokens # NoValue
  /\ resolved.data.text = Glyph("block_cost") \o SPACE \o Lit("No active block")

\* C17: a block with data shows the burn rate for the burn types cost,
\* tokens and both in every display type, and only for these
C17_BurnRateShown ==
  (/\ pc = "rendered"
   /\ resolved.call = "renderBlock"
   /\ ~(info.cost = NoValue /\ info.tokens = NoValue)) =>
    ((config.segment.burnType \in {"cost", "tokens", "both"})
       <=> (\E i \in 1..Len(resolved.data.text) :
              <<resolved.data.text[i]>> = Lit(" | ")))

(***************************************************************************)
(* The directory segment.  A path is the sequence of its characters.       *)
(***************************************************************************)
MaxPathLen == 5

SEP == "/"

\* String.prototype.startsWith
StartsWith(s, prefix) ==
  Len(prefix) <= Len(s) /\ SubSeq(s, 1, Len(prefix)) = prefix

\* String.prototype.slice(n)
SliceFrom(s, n) == SubSeq(s, n + 1, Len(s))

\* s.replace(prefix, "~") where s starts with prefix: the first occurrence
\* is the prefix itself (an empty prefix cannot occur: homeDir is truthy)
ReplacePrefix(s, prefix) == <<"~">> \o SliceFrom(s, Len(prefix))

\* String.prototype.split(path.sep)
RECURSIVE SplitPath(_, _)
SplitPath(s, acc) ==
  IF s = <<>> THEN <<acc>>
  ELSE IF Head(s) = SEP THEN <<acc>> \o SplitPath(Tail(s), <<>>)
  ELSE SplitPath(Tail(s), Append(acc, Head(s)))

\* Array.prototype.join(path.sep)
RECURSIVE JoinPath(_)
JoinPath(parts) ==
  IF parts = <<>> THEN <<>>
  ELSE IF Len(parts) = 1 THEN parts[1]
  ELSE parts[1] \o <<SEP>> \o JoinPath(Tail(parts))

\* path.basename (posix): trailing separators dropped, then what follows
\* the last separator; "" for "/" and for ""
RECURSIVE StripTrailingSep(_)
StripTrailingSep(s) ==
  IF s # <<>> /\ s[Len(s)] = SEP THEN StripTrailingSep(SubSeq(s, 1, Len(s) - 1))
  ELSE s

basename(s) ==
  LET parts == SplitPath(StripTrailingSep(s), <<>>)
  IN  parts[Len(parts)]

\* x || fallback for strings: the empty string and undefined are falsy
OrElse(x, fallback) == IF x # <<>> THEN x ELSE fallback

\* a fish abbreviation that shortens the last component too
abbreviateFishStyle_alsoLast(dirPath) ==
  LET parts == SplitPath(dirPath, <<>>)
  IN  JoinPath([index \in 1..Len(parts) |->
                  IF parts[index] = <<"~">> \/ parts[index] = <<>>
                    THEN parts[index]
                    ELSE <<parts[index][1]>>])

abbreviateFishStyle(dirPath) ==
  LET parts == SplitPath(dirPath, <<>>)
  IN  JoinPath([index \in 1..Len(parts) |->
                  IF index = Len(parts) THEN parts[index]
                  ELSE IF parts[index] = <<"~">> \/ parts[index] = <<>>
                    THEN parts[index]
                  ELSE <<parts[index][1]>>])

\* projectDir = <<>> stands for undefined and for ""
getDisplayDirectoryName(currentDir, projectDir) ==
  IF StartsWith(currentDir, <<"~">>) THEN currentDir
  ELSE IF projectDir # <<>> /\ projectDir # currentDir
    THEN IF StartsWith(currentDir, projectDir)
           THEN LET relativePath == SliceFrom(currentDir, Len(projectDir) + 1)
                IN  OrElse(relativePath,
                           OrElse(basename(projectDir), <<"p","r","o","j","e","c","t">>))
           ELSE OrElse(basename(currentDir), <<"r","o","o","t">>)
  ELSE OrElse(basename(currentDir), <<"r","o","o","t">>)

\* env.homeDir: process.env.HOME || process.env.USERPROFILE
renderDirectory(cfg, data, env, colors) ==
  LET currentDir == OrElse(data.current_dir, OrElse(data.cwd, <<SEP>>))
      projectDir == data.project_dir
      style ==
        IF cfg.segment.style # "undefined" THEN cfg.segment.style
        ELSE IF cfg.segment.showBasename THEN "basename" ELSE "full"
      homeDir == env.homeDir
      displayDir ==
        IF homeDir # <<>> /\ StartsWith(currentDir, homeDir)
          THEN ReplacePrefix(currentDir, homeDir) ELSE currentDir
      displayProjectDir ==
        IF homeDir # <<>> /\ projectDir # <<>> /\ StartsWith(projectDir, homeDir)
          THEN ReplacePrefix(projectDir, homeDir) ELSE projectDir
      dirName == getDisplayDirectoryName(displayDir, displayProjectDir)
  IN  IF style = "basename"
        THEN SegmentData(OrElse(basename(currentDir), <<"r","o","o","t">>),
                         colors.modeBg, colors.modeFg)
      ELSE IF style = "fish"
        THEN SegmentData(abbreviateFishStyle(dirName), colors.modeBg, colors.modeFg)
      ELSE SegmentData(dirName, colors.modeBg, colors.modeFg)

(***************************************************************************)
(* The directory segment taken alone.                                      *)
(***************************************************************************)
HomeAlice == <<"/","h","o","m","e","/","a","l","i","c","e">>

Proj == <<"/","p","r","o","j">>

Src == <<"/","s","r","c">>

Srv == <<"/","s","r","v">>

DirPaths ==
  {<<SEP>>, HomeAlice, HomeAlice \o Proj, HomeAlice \o Proj \o Src,
   Srv, Srv \o Proj, Srv \o Proj \o Src, Srv \o Proj \o <<"e","c","t">>}

DirectorySegments ==
  [kind : {"directory"}, style : {"undefined", "full", "fish", "basename"},
   showBasename : BOOLEAN]

DirectoryConfigs ==
  {[style |-> "powerline", autoWrap |-> FALSE, colorSupport |-> "truecolor",
    theme |-> "dark", custom |-> NoTable, lines |-> <<>>, segment |-> sg] :
     sg \in DirectorySegments}

\* hookData.workspace?.current_dir, hookData.cwd, hookData.workspace?.project_dir
DirectoryData ==
  [version : {TRUE}, current_dir : DirPaths \cup {<<>>}, cwd : {<<>>, Srv},
   project_dir : DirPaths \cup {<<>>}]

Environments == [homeDir : {<<>>, HomeAlice, Srv, Srv \o Proj}]

InitDirectory ==
  /\ config \in DirectoryConfigs
  /\ hookData \in DirectoryData
  /\ pc = "directory"
  /\ info \in Environments
  /\ resolved = NoResolved
  /\ CallAtRest

\* part_000 131-174
CallRenderDirectory ==
  /\ pc = "directory"
  /\ resolved' = [call |-> "renderDirectory",
                  data |-> renderDirectory(config, hookData, info,
                                           getThemeColors(config).colors)]
  /\ pc' = "rendered"
  /\ CallFrame

NextDirectory == CallRenderDirectory

SpecDirectory == InitDirectory /\ [][NextDirectory]_vars

\* C14: style full or default, project root known and current directory
\* strictly inside it: the text is the path relative to the project root;
\* and for /home/alice/proj/src with home /home/alice and project root
\* /home/alice/proj the text is src in style fish as well
C14_RelativeToProject ==
  LET currentDir == OrElse(hookData.current_dir, OrElse(hookData.cwd, <<SEP>>))
      projectDir == hookData.project_dir
      inside ==
        /\ projectDir # <<>>
        /\ StartsWith(currentDir, projectDir \o <<SEP>>)
        /\ Len(currentDir) > Len(projectDir) + 1
      style == config.segment.style
      full == style = "full" \/ (style = "undefined" /\ ~config.segment.showBasename)
  IN  (pc = "rendered" /\ resolved.call = "renderDirectory") =>
        /\ (full /\ inside /\ projectDir # <<SEP>>) =>
             resolved.data.text = SliceFrom(currentDir, Len(projectDir) + 1)
        /\ (/\ style = "fish"
            /\ currentDir = HomeAlice \o Proj \o Src
            /\ projectDir = HomeAlice \o Proj
            /\ info.homeDir = HomeAlice) =>
             resolved.data.text = <<"s","r","c">>

(***************************************************************************)
(* abbreviateFishStyle taken alone, applied to a path and to its result.   *)
(***************************************************************************)
PathChars == {SEP, "~", "a", "b"}

PathsOfLen(n) == [1..n -> PathChars]

FishPaths == UNION {PathsOfLen(n) : n \in 0..MaxPathLen}

InitFish ==
  /\ config \in {c \in DirectoryConfigs :
                   c.segment.style = "fish" /\ ~c.segment.showBasename}
  /\ hookData \in [version : {TRUE}, dirPath : FishPaths]
  /\ pc = "fish"
  /\ info = [homeDir |-> <<>>]
  /\ resolved = [call |-> "abbreviateFishStyle", results |-> <<>>]
  /\ CallAtRest

\* part_000 624-633: applied to the path, then to what it returned
CallAbbreviateFishStyle ==
  /\ pc = "fish"
  /\ Len(resolved.results) < 2
  /\ LET dirPath ==
           IF resolved.results = <<>> THEN hookData.dirPath
           ELSE resolved.results[Len(resolved.results)]
     IN  resolved' = [resolved EXCEPT
                        !.results = Append(@, abbreviateFishStyle(dirPath))]
  /\ UNCHANGED pc
  /\ CallFrame

NextFish == CallAbbreviateFishStyle

SpecFish == InitFish /\ [][NextFish]_vars

\* C20: abbreviating the result again changes nothing; the result keeps
\* the last component, and every other component is empty, ~ or the first
\* character of the component it comes from
C20_FishIdempotent ==
  (pc = "fish" /\ Len(resolved.results) >= 1) =>
    LET inParts == SplitPath(hookData.dirPath, <<>>)
        outParts == SplitPath(resolved.results[1], <<>>)
    IN  /\ Len(resolved.results) = 2 => resolved.results[2] = resolved.results[1]
        /\ Len(outParts) = Len(inParts)
        /\ outParts[Len(outParts)] = inParts[Len(inParts)]
        /\ \A i \in 1..(Len(outParts) - 1) :
             \/ outParts[i] = <<>> /\ inParts[i] = <<>>
             \/ outParts[i] = <<"~">> /\ inParts[i] = <<"~">>
             \/ /\ Len(outParts[i]) = 1
                /\ inParts[i] # <<>>
                /\ outParts[i][1] = inParts[i][1]

\* a path with a long inner component and a long last component,
\* abbreviated twice
C20_Witness ==
  /\ pc = "fish"
  /\ hookData.dirPath = <<"a","b","/","a","b">>
  /\ Len(resolved.results) = 2
  /\ resolved.results[1] = <<"a","/","a","b">>
  /\ resolved.results[2] = <<"a","/","a","b">>

(***************************************************************************)
(* The context provider (ContextProvider) and the context segment.         *)
(***************************************************************************)
DefaultContextLimit == 200000

Min(a, b) == IF a <= b THEN a ELSE b

Max(a, b) == IF a >= b THEN a ELSE b

\* Math.round(numerator / denominator * 100) for non-negative integers
RoundPercent(numerator, denominator) ==
  (2 * 100 * numerator + denominator) \div (2 * denominator)

\* String.prototype.toLowerCase, for the letters of the model identifiers
LowerChar(c) ==
  CASE c = "S" -> "s" [] c = "O" -> "o" [] c = "N" -> "n" [] c = "E" -> "e"
    [] c = "T" -> "t" [] c = "P" -> "p" [] c = "U" -> "u"
    [] OTHER -> c

toLowerCase(s) == [i \in 1..Len(s) |-> LowerChar(s[i])]

\* String.prototype.includes
Includes(s, part) ==
  \E i \in 0..(Len(s) - Len(part)) : SubSeq(s, i + 1, i + Len(part)) = part

getModelType(modelId) ==
  LET id == toLowerCase(modelId)
  IN  IF Includes(id, <<"s","o","n","n","e","t">>) THEN "sonnet"
      ELSE IF Includes(id, <<"o","p","u","s">>) THEN "opus"
      ELSE "default"

\* a limit that is 0 stands for a key that is absent: the code tests the
\* truthiness of the entry
Limits(present, sonnet, opus, default) ==
  [present |-> present, sonnet |-> sonnet, opus |-> opus, default |-> default]

getContextLimit(cfg, modelId) ==
  LET modelLimits ==
        IF cfg.modelContextLimits.present THEN cfg.modelContextLimits
        ELSE Limits(TRUE, 0, 0, DefaultContextLimit)
      modelType == getModelType(modelId)
  IN  IF modelLimits[modelType] # 0 THEN modelLimits[modelType]
      ELSE IF modelLimits.default # 0 THEN modelLimits.default
      ELSE DefaultContextLimit

\* the last entry of the transcript that has input tokens and is not in a
\* side chain; 0 when there is none
RECURSIVE MostRecentEntry(_, _)
MostRecentEntry(parsedEntries, i) ==
  IF i = 0 THEN 0
  ELSE IF parsedEntries[i].input_tokens = 0 \/ parsedEntries[i].isSidechain
    THEN MostRecentEntry(parsedEntries, i - 1)
  ELSE i

ContextInfo(inputTokens, percentage, maxTokens) ==
  [present |-> TRUE, inputTokens |-> inputTokens, percentage |-> percentage,
   usablePercentage |-> percentage,
   contextLeftPercentage |-> Max(0, 100 - percentage),
   maxTokens |-> maxTokens, usableTokens |-> maxTokens]

NoContextInfo ==
  [present |-> FALSE, inputTokens |-> 0, percentage |-> 0, usablePercentage |-> 0,
   contextLeftPercentage |-> 0, maxTokens |-> 0, usableTokens |-> 0]

\* parsedEntries: what parseJsonlFile gave for the transcript (empty when
\* the file cannot be read or is empty); modelId = <<>> stands for undefined
calculateContextTokens(cfg, parsedEntries, modelId) ==
  LET recent == MostRecentEntry(parsedEntries, Len(parsedEntries))
      usage == parsedEntries[recent]
      contextLength ==
        usage.input_tokens + usage.cache_read_input_tokens
          + usage.cache_creation_input_tokens
      contextLimit ==
        IF modelId # <<>> THEN getContextLimit(cfg, modelId)
        ELSE DefaultContextLimit
      percentage == Min(100, Max(0, RoundPercent(contextLength, contextLimit)))
  IN  IF recent = 0 THEN NoContextInfo
      ELSE ContextInfo(contextLength, percentage, contextLimit)

(***************************************************************************)
(* The context provider and the context segment taken alone.               *)
(***************************************************************************)
ModelIds ==
  {<<>>,
   <<"c","-","s","o","n","n","e","t","-","4">>,
   <<"c","-","O","P","U","S","-","4">>,
   <<"o","p","u","s","+","S","o","n","n","e","t">>,
   <<"c","-","h","a","i","k","u">>}

ContextLimits ==
  {Limits(FALSE, 0, 0, 0)}
    \cup {Limits(TRUE, s, o, d) :
            s \in {0, 1000000}, o \in {0, 500000}, d \in {0, 100000}}

ContextSegments ==
  {[kind |-> "context", type |-> "context", enabled |-> TRUE,
    warningThreshold |-> th] : th \in {NoThreshold, 80}}

ContextConfigs ==
  {[style |-> "powerline", autoWrap |-> FALSE, colorSupport |-> "truecolor",
    theme |-> "dark", custom |-> NoTable, lines |-> <<>>, segment |-> sg,
    modelContextLimits |-> ml] :
     sg \in ContextSegments, ml \in ContextLimits}

\* message.usage and isSidechain of a transcript entry
Usages ==
  {[input_tokens |-> 150000, cache_read_input_tokens |-> 0,
    cache_creation_input_tokens |-> 0, isSidechain |-> FALSE],
   [input_tokens |-> 100000, cache_read_input_tokens |-> 90000,
    cache_creation_input_tokens |-> 10000, isSidechain |-> FALSE],
   [input_tokens |-> 1000, cache_read_input_tokens |-> 0,
    cache_creation_input_tokens |-> 0, isSidechain |-> FALSE],
   [input_tokens |-> 0, cache_read_input_tokens |-> 5000,
    cache_creation_input_tokens |-> 0, isSidechain |-> FALSE],
   [input_tokens |-> 300000, cache_read_input_tokens |-> 0,
    cache_creation_input_tokens |-> 0, isSidechain |-> TRUE]}

Transcripts == UNION {[1..n -> Usages] : n \in 0..2}

InitContext ==
  /\ config \in ContextConfigs
  /\ hookData \in [version : {TRUE}, model_id : ModelIds, transcript : Transcripts]
  /\ pc = "context"
  /\ info = [session |-> NoInfo, block |-> NoInfo, today |-> NoInfo,
             context |-> NoContextInfo, metrics |-> NoInfo]
  /\ resolved = NoResolved
  /\ CallAtRest

\* part_000 766-851
CallCalculateContextTokens ==
  /\ pc = "context"
  /\ info' = [info EXCEPT !.context =
                calculateContextTokens(config, hookData.transcript,
                                       hookData.model_id)]
  /\ pc' = "calculated"
  /\ UNCHANGED <<config, hookData, terminalWidth, cursor, renderedSegments,
                 outputLines, wrap, resolved, tasks, asked, invoked, result>>

\* part_000 328-354
CallRenderContext ==
  /\ pc = "calculated"
  /\ resolved' = [call |-> "renderContext",
                  data |-> renderContext(info.context,
                                         getThemeColors(config).colors,
                                         config.segment, 1)]
  /\ pc' = "rendered"
  /\ CallFrame

NextContext == CallCalculateContextTokens \/ CallRenderContext

SpecContext == InitContext /\ [][NextContext]_vars

\* C18: without a configured threshold the context segment has the normal
\* context colours, whatever snapshot the provider gave
C18_NoWarningByDefault ==
  (/\ pc = "rendered"
   /\ resolved.call = "renderContext"
   /\ config.segment.warningThreshold = NoThreshold) =>
    /\ resolved.data.bgColor = getThemeColors(config).colors.contextBg
    /\ resolved.data.fgColor = getThemeColors(config).colors.contextFg

\* C19: the limit is the configured limit of the family named in the
\* identifier; without such a family, identifier or configured limit it is
\* the configured default, and 200000 only when no default is configured
C19_ContextLimit ==
  LET ml == config.modelContextLimits
      id == toLowerCase(hookData.model_id)
      family ==
        IF Includes(id, <<"s","o","n","n","e","t">>) THEN "sonnet"
        ELSE IF Includes(id, <<"o","p","u","s">>) THEN "opus"
        ELSE "none"
      expected ==
        IF ml.present /\ family # "none" /\ ml[family] # 0 THEN ml[family]
        ELSE IF ml.present /\ ml.default # 0 THEN ml.default
        ELSE 200000
  IN  (pc = "calculated" /\ info.context.present) =>
        info.context.maxTokens = expected

(***************************************************************************)
(* The source-control segment.                                             *)
(***************************************************************************)
\* the text of a field of the snapshot
Value(field, v) == <<Tok("value", <<field, v>>, "", 1)>>

\* a number printed in a template
Number(n) == <<Tok("number", <<n>>, "", 1)>>

\* utils/formatters: the relative time
formatTimeSince(seconds) == <<Tok("formatTimeSince", <<seconds>>, "", 1)>>

\* Array.prototype.join(" ")
RECURSIVE JoinSpace(_)
JoinSpace(parts) ==
  IF parts = <<>> THEN <<>>
  ELSE IF Len(parts) = 1 THEN parts[1]
  ELSE parts[1] \o SPACE \o JoinSpace(Tail(parts))

\* what each test of renderGit pushes onto parts: a sequence of zero, one
\* or two parts; "" stands for a missing string, 0 for a missing count
GitClauses(gitInfo, cfg) ==
  LET on(option) == option \in cfg.segment.options
      counts ==
        (IF gitInfo.staged > 0 THEN <<Lit("+") \o Number(gitInfo.staged)>> ELSE <<>>)
        \o (IF gitInfo.unstaged > 0
              THEN <<Lit("~") \o Number(gitInfo.unstaged)>> ELSE <<>>)
        \o (IF gitInfo.untracked > 0
              THEN <<Lit("?") \o Number(gitInfo.untracked)>> ELSE <<>>)
        \o (IF gitInfo.conflicts > 0
              THEN <<Lit("!") \o Number(gitInfo.conflicts)>> ELSE <<>>)
  IN  [repoName |->
         IF on("showRepoName") /\ gitInfo.repoName # ""
           THEN <<Value("repoName", gitInfo.repoName)>>
                \o (IF gitInfo.isWorktree THEN <<Glyph("git_worktree")>> ELSE <<>>)
           ELSE <<>>,
       operation |->
         IF on("showOperation") /\ gitInfo.operation # ""
           THEN <<Lit("[") \o Value("operation", gitInfo.operation) \o Lit("]")>>
           ELSE <<>>,
       branch |-> <<Glyph("branch") \o SPACE \o Value("branch", gitInfo.branch)>>,
       tag |->
         IF on("showTag") /\ gitInfo.tag # ""
           THEN <<Glyph("git_tag") \o SPACE \o Value("tag", gitInfo.tag)>>
           ELSE <<>>,
       sha |->
         IF on("showSha") /\ gitInfo.sha # ""
           THEN <<Glyph("git_sha") \o SPACE \o Value("sha", gitInfo.sha)>>
           ELSE <<>>,
       aheadBehind |->
         IF cfg.segment.showAheadBehind = "false" THEN <<>>
         ELSE IF gitInfo.ahead > 0 /\ gitInfo.behind > 0
           THEN <<Glyph("git_ahead") \o Number(gitInfo.ahead)
                    \o Glyph("git_behind") \o Number(gitInfo.behind)>>
         ELSE IF gitInfo.ahead > 0
           THEN <<Glyph("git_ahead") \o Number(gitInfo.ahead)>>
         ELSE IF gitInfo.behind > 0
           THEN <<Glyph("git_behind") \o Number(gitInfo.behind)>>
         ELSE <<>>,
       workingTree |->
         IF on("showWorkingTree") /\ Len(counts) > 0
           THEN <<Lit("(") \o JoinSpace(counts) \o Lit(")")>>
           ELSE <<>>,
       upstream |->
         IF on("showUpstream") /\ gitInfo.upstream # ""
           THEN <<Glyph("git_upstream") \o Value("upstream", gitInfo.upstream)>>
           ELSE <<>>,
       stashCount |->
         IF on("showStashCount") /\ gitInfo.stashCount > 0
           THEN <<Glyph("git_stash") \o SPACE \o Number(gitInfo.stashCount)>>
           ELSE <<>>,
       timeSinceCommit |->
         IF on("showTimeSinceCommit") /\ gitInfo.timeSinceCommit # NoValue
           THEN <<Glyph("git_time") \o SPACE
                    \o formatTimeSince(gitInfo.timeSinceCommit)>>
           ELSE <<>>,
       gitStatusIcon |->
         IF gitInfo.status = "conflicts" THEN <<Glyph("git_conflicts")>>
         ELSE IF gitInfo.status = "dirty" THEN <<Glyph("git_dirty")>>
         ELSE <<Glyph("git_clean")>>]

\* a source-control segment with the commit hash before the tag
renderGit_hashBeforeTag(cfg, gitInfo, colors) ==
  LET c == GitClauses(gitInfo, cfg)
      parts ==
        c.repoName \o c.operation \o c.branch \o c.sha \o c.tag \o c.aheadBehind
          \o c.workingTree \o c.upstream \o c.stashCount \o c.timeSinceCommit
          \o c.gitStatusIcon
  IN  SegmentData(JoinSpace(parts), colors.gitBg, colors.gitFg)

\* gitInfo is not null: the renderer calls renderGit only with a snapshot
renderGit(cfg, gitInfo, colors) ==
  LET c == GitClauses(gitInfo, cfg)
      parts ==
        c.repoName \o c.operation \o c.branch \o c.tag \o c.sha \o c.aheadBehind
          \o c.workingTree \o c.upstream \o c.stashCount \o c.timeSinceCommit
          \o c.gitStatusIcon
  IN  SegmentData(JoinSpace(parts), colors.gitBg, colors.gitFg)

(***************************************************************************)
(* The source-control segment taken alone.                                 *)
(***************************************************************************)
GitOptions ==
  {"showRepoName", "showOperation", "showTag", "showSha", "showWorkingTree",
   "showUpstream", "showStashCount", "showTimeSinceCommit"}

\* few options on, or nearly all
GitOptionSets ==
  {S \in SUBSET GitOptions : Cardinality(S) <= 2 \/ Cardinality(S) >= 7}

GitSegments ==
  [kind : {"git"}, options : GitOptionSets,
   showAheadBehind : {"undefined", "true", "false"}]

GitConfigs ==
  {[style |-> "powerline", autoWrap |-> FALSE, colorSupport |-> "truecolor",
    theme |-> "dark", custom |-> NoTable, lines |-> <<>>, segment |-> sg] :
     sg \in GitSegments}

\* which optional fields the snapshot has
GitFieldSets ==
  {{"repoName", "operation", "tag", "sha", "upstream", "stashCount",
    "timeSinceCommit"},
   {"repoName", "tag", "upstream", "timeSinceCommit"},
   {}}

GitInfos ==
  {[repoName |-> IF "repoName" \in f THEN "repo" ELSE "",
    isWorktree |-> wt,
    operation |-> IF "operation" \in f THEN "REBASE" ELSE "",
    branch |-> "main",
    tag |-> IF "tag" \in f THEN "v1" ELSE "",
    sha |-> IF "sha" \in f THEN "abc1234" ELSE "",
    ahead |-> ab[1], behind |-> ab[2],
    staged |-> cn[1], unstaged |-> cn[2], untracked |-> cn[3], conflicts |-> cn[4],
    upstream |-> IF "upstream" \in f THEN "origin/main" ELSE "",
    stashCount |-> IF "stashCount" \in f THEN 3 ELSE 0,
    timeSinceCommit |-> IF "timeSinceCommit" \in f THEN 60 ELSE NoValue,
    status |-> st] :
     f \in GitFieldSets, wt \in BOOLEAN,
     ab \in {<<0, 0>>, <<2, 0>>, <<0, 1>>, <<2, 1>>},
     cn \in {<<0, 0, 0, 0>>, <<1, 0, 2, 0>>, <<1, 2, 3, 4>>},
     st \in {"clean", "dirty", "conflicts"}}

InitGit ==
  /\ config \in GitConfigs
  /\ hookData = [version |-> TRUE]
  /\ pc = "git"
  /\ info \in GitInfos
  /\ resolved = NoResolved
  /\ CallAtRest

\* part_000 176-263
CallRenderGit ==
  /\ pc = "git"
  /\ resolved' = [call |-> "renderGit",
                  data |-> renderGit(config, info, getThemeColors(config).colors)]
  /\ pc' = "rendered"
  /\ CallFrame

NextGit == CallRenderGit

SpecGit == InitGit /\ [][NextGit]_vars

\* the place of a token in the fixed order of clauses; 0 for a token that
\* starts no clause
ClauseRank(tok) ==
  CASE tok.t = "value" /\ tok.hex[1] = "repoName" -> 1
    [] tok.t = "git_worktree" -> 2
    [] tok = Lit("[")[1] -> 3
    [] tok.t = "branch" -> 4
    [] tok.t = "git_tag" -> 5
    [] tok.t = "git_sha" -> 6
    [] tok.t = "git_ahead" -> 7
    [] tok.t = "git_behind" -> 8
    [] tok = Lit("(")[1] -> 9
    [] tok.t = "git_upstream" -> 10
    [] tok.t = "git_stash" -> 11
    [] tok.t = "git_time" -> 12
    [] tok.t \in {"git_clean", "git_dirty", "git_conflicts"} -> 13
    [] OTHER -> 0

RanksOf(text) ==
  LET marks == SelectSeq(text, LAMBDA tok : ClauseRank(tok) > 0)
  IN  [i \in 1..Len(marks) |-> ClauseRank(marks[i])]

\* C15: the clauses come in the fixed order, each at most once and the
\* branch exactly once, joined by single blanks, and the text ends with
\* exactly one cleanliness glyph, the one of the status; the example
\* {main, ahead 2, behind 0, dirty} gives branch-glyph main ahead-glyph 2
\* dirty-glyph
C15_GitStructure ==
  (pc = "rendered" /\ resolved.call = "renderGit") =>
    LET text == resolved.data.text
        ranks == RanksOf(text)
        icon ==
          IF info.status = "conflicts" THEN Glyph("git_conflicts")
          ELSE IF info.status = "dirty" THEN Glyph("git_dirty")
          ELSE Glyph("git_clean")
    IN  /\ \A i \in 1..(Len(ranks) - 1) : ranks[i] < ranks[i + 1]
        /\ Len(SelectSeq(ranks, LAMBDA r : r = 4)) = 1
        /\ Len(SelectSeq(ranks, LAMBDA r : r = 13)) = 1
        /\ <<text[Len(text)]>> = icon
        /\ text[Len(text) - 1] = SPACE[1]
        /\ text[1] # SPACE[1]
        /\ \A i \in 1..(Len(text) - 1) : ~(text[i] = SPACE[1] /\ text[i + 1] = SPACE[1])
        /\ (/\ info.ahead = 2 /\ info.behind = 0 /\ info.status = "dirty"
            /\ config.segment.options = {}
            /\ config.segment.showAheadBehind # "false") =>
             text = Glyph("branch") \o SPACE \o Value("branch", "main") \o SPACE
                      \o Glyph("git_ahead") \o Number(2) \o SPACE
                      \o Glyph("git_dirty")

\* every optional clause present, status conflicts
C15_Witness ==
  /\ pc = "rendered"
  /\ resolved.call = "renderGit"
  /\ info.status = "conflicts"
  /\ RanksOf(resolved.data.text) = <<1, 2, 3, 4, 5, 6, 7, 8, 9, 10, 11, 12, 13>>

(***************************************************************************)
(* The width the wrap loop holds for the physical line it is filling.      *)
(***************************************************************************)
\* the width of a capsule line as it is drawn: caps and padding for every
\* segment, one separator for every segment after the first
RECURSIVE CapsuleWidth(_)
CapsuleWidth(segments) ==
  IF segments = <<>> THEN 0
  ELSE visibleLength(Head(segments).text) + 4
       + (IF Len(segments) > 1 THEN 1 ELSE 0)
       + CapsuleWidth(Tail(segments))

\* the first segment text of the physical line that follows the k-th
\* flushed line: of the next flushed line, or of the line being filled
FollowingText(k) ==
  IF k < Len(wrap.outputLines) THEN TextsOf(wrap.outputLines[k + 1])[1]
  ELSE wrap.currentLineSegments[1].text[1]

\* C21: in capsule style the running width of the wrap loop is, at every
\* step, the drawn width of the segments on the current physical line (a
\* segment that starts a physical line is charged no separator), and a
\* segment was moved to a new line only if it did not fit after the content
\* of the line before it
C21_CapsuleWidthAccounting ==
  (pc = "wrap" /\ config.style = "capsule") =>
    /\ wrap.currentLineWidth = CapsuleWidth(wrap.currentLineSegments)
    /\ \A k \in 1..Len(wrap.outputLines) :
         LineWidth(config, wrap.outputLines[k]) + 1
           + FollowingText(k).len + 4 > terminalWidth.value

(***************************************************************************)
(* The directory segment and whole path components.                        *)
(***************************************************************************)
\* dir is root or a descendant of root by whole path components
InsideByComponents(dir, root) ==
  \/ dir = root
  \/ StartsWith(dir, IF root = <<SEP>> THEN root ELSE root \o <<SEP>>)

\* C22: style full, project root known: a current directory that is not the
\* project root or a descendant of it by whole components (a sibling with a
\* longer name included) is shown by its basename, here for directories the
\* home replacement leaves alone; and the text begins with ~ only when the
\* current directory is the home directory or a descendant of it
C22_InsideByComponents ==
  LET currentDir == OrElse(hookData.current_dir, OrElse(hookData.cwd, <<SEP>>))
      projectDir == hookData.project_dir
      homeDir == info.homeDir
      style == config.segment.style
      full == style = "full" \/ (style = "undefined" /\ ~config.segment.showBasename)
      text == resolved.data.text
  IN  (pc = "rendered" /\ resolved.call = "renderDirectory" /\ full) =>
        /\ (/\ projectDir # <<>>
            /\ ~InsideByComponents(currentDir, projectDir)
            /\ ~(homeDir # <<>> /\ StartsWith(currentDir, homeDir))) =>
             text = OrElse(basename(currentDir), <<"r","o","o","t">>)
        /\ StartsWith(text, <<"~">>) =>
             (homeDir # <<>> /\ InsideByComponents(currentDir, homeDir))

(***************************************************************************)
(* One renderLine call from its first statement to its return, with no     *)
(* other call in between.                                                  *)
(***************************************************************************)
\* exts[i]: what the i-th renderSegment call of the line reads from outside
RECURSIVE RenderLineFrom(_, _, _, _, _, _, _)
RenderLineFrom(cfg, segments, data, facts, colors, exts, i) ==
  IF i > Len(segments) THEN <<>>
  ELSE LET segment == segments[i]
           isFirst == i = 1
           isLast == i = Len(segments)
           nextBgColor ==
             IF ~isLast THEN getSegmentBgColor(segments[i + 1].type, colors)
             ELSE <<>>
           segmentData == renderSegment(cfg, segment, data, facts, colors, exts[i])
       IN  (IF segmentData.shown
              THEN (IF cfg.style = "capsule" /\ ~isFirst THEN SPACE ELSE <<>>)
                   \o formatSegment(cfg, segmentData.bgColor, segmentData.fgColor,
                                    segmentData.text, nextBgColor, colors)
              ELSE <<>>)
           \o RenderLineFrom(cfg, segments, data, facts, colors, exts, i + 1)

renderLine(cfg, lineConfig, data, facts, exts) ==
  LET colors == getThemeColors(cfg).colors
  IN  colors.reset
        \o RenderLineFrom(cfg, EnabledSegments(lineConfig), data, facts, colors, exts, 1)

\* what the renderSegment calls of configured line l read from outside: the
\* source-control lookup of a git segment gave a snapshot iff the segment
\* was rendered
LookupsOf(l) ==
  [i \in 1..Len(asked[l]) |->
     [gitInfo |-> asked[l][i].type # "git" \/ asked[l][i].shown, len |-> 1]]

\* configured line l rendered alone, with the same lookup results
RenderedAlone(l) == renderLine(config, config.lines[l], hookData, info, LookupsOf(l))

\* C23: without auto-wrap, whatever the order in which the renderLine tasks
\* take their steps and finish, the text of a finished line is the text of
\* that line rendered alone, and the returned text lists the non-empty
\* lines in the configured line order
C23_LineOrder ==
  (~config.autoWrap /\ pc \in {"lines", "done"}) =>
    /\ \A l \in 1..Len(tasks) :
         tasks[l].done => tasks[l].line = RenderedAlone(l)
    /\ pc = "done" =>
         PhysicalLines(result.text)
           = FilterNonEmpty([l \in 1..Len(config.lines) |-> RenderedAlone(l)])

\* the second configured line has finished, with a rendered segment, while
\* the first is between its two awaits
C23_Witness ==
  /\ pc = "lines"
  /\ Len(tasks) = 2
  /\ tasks[2].done
  /\ ShownKinds(2) # <<>>
  /\ ~tasks[1].done
  /\ tasks[1].i = 2
  /\ ShownKinds(1) # <<>>

\* the text generateStatusline returns without auto-wrap (lines 157-171)
\* for the configuration, the facts and the lookup results of this call
TextWithoutAutoWrap ==
  JoinNL(FilterNonEmpty([l \in 1..Len(config.lines) |-> RenderedAlone(l)]))

\* C24: the text the auto-wrap path returns when the terminal width is
\* unavailable or not positive is the text the path without auto-wrap
\* returns for the same configuration, facts and colours, also when enabled
\* segments are suppressed and when a configured line renders no segment
C24_PathsAgree ==
  (/\ pc = "done"
   /\ config.autoWrap
   /\ (~terminalWidth.known \/ terminalWidth.value <= 0)) =>
    result.text = TextWithoutAutoWrap

(***************************************************************************)
(* The calls made to the facts providers within one generateStatusline.    *)
(***************************************************************************)
\* no renderSegment call has been made yet
NothingRendered == \A l \in 1..Len(asked) : asked[l] = <<>>

\* C25: a provider whose segment kind no configured line enables is never
\* called; the usage, block, today, context and metrics providers are
\* called at most once each, however many lines enable the segment, and a
\* call to one of them is made before any segment is rendered
C25_ProviderDispatch ==
  /\ [](/\ \A p \in Providers : invoked[p] > 0 => needsSegmentInfo(config, p)
        /\ \A p \in FactsProviders : invoked[p] <= 1)
  /\ [][\A p \in FactsProviders :
          invoked'[p] # invoked[p] => (NothingRendered /\ asked' = asked)]_vars

\* a finished call with the context segment enabled on two configured
\* lines and the git segment on none
C25_Witness ==
  /\ pc = "done"
  /\ Len(config.lines) = 2
  /\ \A l \in 1..2 :
       \E k \in 1..Len(config.lines[l]) :
         config.lines[l][k].type = "context" /\ config.lines[l][k].enabled
  /\ Len(asked[1]) >= 1 /\ Len(asked[2]) >= 1
  /\ invoked["context"] = 1
  /\ ~needsSegmentInfo(config, "git")
  /\ invoked["git"] = 0

====
